---- MODULE Spec2Model ----
(***************************************************************************)
(* A model of docker-report: the paged registry client, the filter rules,  *)
(* the tag sorter, the registry browser with its setup, the browsers one   *)
(* process creates, the reporter's main with its pool of report tasks,     *)
(* and the deletion of tags.                                               *)
(*                                                                         *)
(* A Python str is a sequence of one-character strings, so that            *)
(* startswith, endswith, slicing, `in`, split and format are computed on   *)
(* the characters as the code computes them.                               *)
(***************************************************************************)
EXTENDS Integers, Sequences, FiniteSets, TLC

VARIABLES
    \* Registry._get_all_pages / Registry.get_tags_for_image
    pg_pc,        \* "idle" | "request" | "done"
    pg_caller,    \* "get_tags_for_image" | "_get_all_pages" | "none"
    url_part,     \* the local url_part of _get_all_pages
    responses,    \* the local list responses of _get_all_pages
    pg_log,       \* every _request made: <<[path, reply]>>, in order
    pg_out,       \* what _get_all_pages did: nothing yet, return, raise
    tags_out,     \* what get_tags_for_image did: nothing yet, return, raise
    \* reporter._filters_from_file and the filters it returns
    ff_pc,          \* "loading" | "done"
    image_filters,  \* the local list image_filters
    tag_filters,    \* the local list tag_filters
    ff_last,        \* the section read last, and the lists' lengths before it
    ff_out,         \* what _filters_from_file did: nothing yet, return, raise
    pr_data,        \* the (image, tag) the returned filters were called with
    img_votes,      \* what each image filter answered, in list order
    tag_votes,      \* what each tag filter answered, in list order
    \* RegistryBrowser.sort_tags
    st_pc,          \* "idle" | "done"
    st_image,       \* the argument image
    st_tags,        \* the argument tags
    st_fetch,       \* what _get_all_pages does for each manifest path
    st_made,        \* how each tag's manifest was made: its kind and timestamp
    st_out,         \* what sort_tags did: nothing yet, return, raise
    \* reporter.setup_browser and RegistryBrowser.get_image_tags
    br_pc,            \* "idle" | "done"
    cls_name_filters, \* the class attribute RegistryBrowser.name_filters
    cls_tag_filters,  \* the class attribute RegistryBrowser.tag_filters
    browsers,         \* the arguments of every call that made a browser, in order
    br_sort,          \* the argument sort of get_image_tags
    br_registry,      \* what the registry serves during get_image_tags
    br_images,        \* what _get_images_list did
    br_out,           \* what setup_browser or get_image_tags did
    \* reporter.main
    mn_pc,        \* where the main thread is
    mn_options,   \* the parsed command line
    mn_dir,       \* the scratch directory: "absent" | "exists" | "removed"
    mn_bound,     \* the locals of main that are bound
    mn_browser,   \* the browser setup_browser returned
    mn_report,    \* the Reporter: exitcode, _failed, _success, ...
    mn_found,     \* what get_image_tags(sort=True) did
    mn_gen,       \* what get_images() yields and how it ends
    mn_futures,   \* the futures executor.map submitted, in order
    mn_next,      \* the index of the result main takes next
    mn_exc,       \* the exception raised in main, if any
    mn_printed,   \* what pprint printed
    mn_status,    \* the exit status of the process, -1 while it runs
    mn_peak,      \* the most report tasks that ran at once
    \* registryctl.delete_tags and RegistryOperations.delete_image
    dl_pc,        \* "idle" | "prompt" | "done"
    dl_args,      \* the arguments name, filterglob, force of delete_tags
    dl_registry,  \* what the registry does during the call
    dl_requests,  \* every request made, in order
    dl_shown,     \* the tags printed before the prompt, if it was issued
    dl_answer,    \* what input() returned, if it was called
    dl_deleted,   \* what delete_image did: nothing yet, return, raise
    dl_printed,   \* the lines printed after the prompt
    dl_ret,       \* what delete_tags did: nothing yet, return, raise
    \* debmonitor.DockerReport
    dr_reports,   \* the DockerReport objects constructed, in order
    \* one report task, from its support check on
    tk_pc,        \* "idle" | "check" | "generate" | "submit" | "prune" | "done"
    tk_self,      \* the Reporter the task belongs to
    tk_debmonitor,\* the DockerReport of the task
    tk_env,       \* what the docker daemon and the commands do for the task
    tk_docker,    \* the image store and the container of the support check
    tk_calls,     \* the methods of the DockerReport called so far
    tk_out        \* what run_report did: nothing yet, return, raise

pagesVars == <<pg_pc, pg_caller, url_part, responses, pg_log, pg_out, tags_out>>

rulesVars == <<ff_pc, image_filters, tag_filters, ff_last, ff_out,
               pr_data, img_votes, tag_votes>>

sortVars == <<st_pc, st_image, st_tags, st_fetch, st_made, st_out>>

browseVars == <<br_pc, cls_name_filters, cls_tag_filters, browsers,
                br_sort, br_registry, br_images, br_out>>

mainVars == <<mn_pc, mn_options, mn_dir, mn_bound, mn_browser, mn_report,
              mn_found, mn_gen, mn_futures, mn_next, mn_exc, mn_printed,
              mn_status, mn_peak>>

deleteVars == <<dl_pc, dl_args, dl_registry, dl_requests, dl_shown, dl_answer,
                dl_deleted, dl_printed, dl_ret>>

reportVars == <<dr_reports>>

taskVars == <<tk_pc, tk_self, tk_debmonitor, tk_env, tk_docker, tk_calls, tk_out>>

vars == <<pagesVars, rulesVars, sortVars, browseVars, mainVars, deleteVars,
          reportVars, taskVars>>

\* What a step of one component leaves alone: the other components.
PagesFrame ==
    UNCHANGED <<rulesVars, sortVars, browseVars, mainVars, deleteVars, reportVars,
                taskVars>>
RulesFrame ==
    UNCHANGED <<pagesVars, sortVars, browseVars, mainVars, deleteVars, reportVars,
                taskVars>>
SortFrame ==
    UNCHANGED <<pagesVars, rulesVars, browseVars, mainVars, deleteVars, reportVars,
                taskVars>>
BrowseFrame ==
    UNCHANGED <<pagesVars, rulesVars, sortVars, mainVars, deleteVars, reportVars,
                taskVars>>
MainFrame ==
    UNCHANGED <<pagesVars, rulesVars, sortVars, browseVars, deleteVars, reportVars,
                taskVars>>
DeleteFrame ==
    UNCHANGED <<pagesVars, rulesVars, sortVars, browseVars, mainVars, reportVars,
                taskVars>>
ReportFrame ==
    UNCHANGED <<pagesVars, rulesVars, sortVars, browseVars, mainVars, deleteVars,
                taskVars>>
TaskFrame ==
    UNCHANGED <<pagesVars, rulesVars, sortVars, browseVars, mainVars, deleteVars,
                reportVars>>

(***************************************************************************)
(* Bounds of the model.                                                    *)
(***************************************************************************)
\* The longest chain of pages a registry serves for one query.
MaxPages == 3
\* The most sections a filter file holds.
MaxSections == 2
\* The most tags of one image that are sorted.
MaxTags == 2
\* The most calls of setup_browser in one process.
MaxSetups == 1
\* The widest pool of report tasks.
MaxWidth == 2
\* The most browsers created in one process, where only their creation is
\* followed.
MaxBrowsers == 2
\* The most DockerReport objects that share a report directory.
MaxReports == 2

(***************************************************************************)
(* str helpers.                                                            *)
(***************************************************************************)
\* str.startswith
StartsWith(s, prefix) ==
    /\ Len(s) >= Len(prefix)
    /\ SubSeq(s, 1, Len(prefix)) = prefix

\* str.endswith
EndsWith(s, suffix) ==
    /\ Len(s) >= Len(suffix)
    /\ SubSeq(s, Len(s) - Len(suffix) + 1, Len(s)) = suffix

\* s[n:]
SliceFrom(s, n) == SubSeq(s, n + 1, Len(s))

\* sub in s
Contains(sub, s) ==
    \E i \in 0..(Len(s) - Len(sub)) : SubSeq(s, i + 1, i + Len(sub)) = sub

(***************************************************************************)
(* Registry paths.                                                         *)
(***************************************************************************)
V2 == <<"/", "v", "2", "/">>

\* "/v2/_catalog"
CatalogPath == V2 \o <<"_", "c", "a", "t", "a", "l", "o", "g">>

TagsListSuffix == <<"/", "t", "a", "g", "s", "/", "l", "i", "s", "t">>

\* "/v2/{}/tags/list".format(image_name)
TagsListPath(image_name) == V2 \o image_name \o TagsListSuffix

\* "/v2/{}/manifests/{}?cache=busted".format(image, tag)
ManifestPath(image, tag) ==
    V2 \o image \o <<"/", "m", "a", "n", "i", "f", "e", "s", "t", "s", "/">> \o tag
       \o <<"?", "c", "a", "c", "h", "e", "=", "b", "u", "s", "t", "e", "d">>

(***************************************************************************)
(* What the registry holds and answers.                                    *)
(***************************************************************************)
ImgA == <<"a">>
ImgB == <<"b", "/", "c">>
PageImages == {ImgA, ImgB}

T1 == <<"1">>
T2 == <<"2">>
T3 == <<"l">>

\* The query string a registry puts in a next link.
Query == <<"?", "n", "=", "1">>

\* The paths a next link may name. The last one is a link back to a plain
\* tags listing: the registry chooses its links, the client follows them.
NextUrls ==
    { CatalogPath \o Query,
      TagsListPath(ImgA) \o Query,
      TagsListPath(ImgB) }

\* JSON bodies of a page.
Payloads ==
    { [name |-> ImgA, tags |-> <<T1, T2>>],
      [name |-> ImgA, tags |-> <<T3>>],
      [repositories |-> <<ImgA, ImgB>>] }

\* resp.links of a response: at most one link of relation "next".
LinkSets == {{}} \cup { {[rel |-> "next", url |-> u]} : u \in NextUrls }

OkReplies ==
    { [kind |-> "ok", json |-> p, links |-> l] : p \in Payloads, l \in LinkSets }

\* raise_for_status() raises HTTPError on these.
ErrorStatusCodes == {404, 500}

(***************************************************************************)
(* Registry._get_all_pages, one _request per step.                         *)
(***************************************************************************)
NoOutcome == [kind |-> "none"]
Return(v) == [kind |-> "return", value |-> v]
Raise(exc, arg) == [kind |-> "raise", exc |-> exc, arg |-> arg]

\* "next" in resp.links
HasNext(resp) == \E l \in resp.links : l.rel = "next"

\* A client that forgets to follow the link asks for the same page again.
SamePageUrl(resp) == url_part

\* resp.links["next"]["url"]
NextUrl(resp) == (CHOOSE l \in resp.links : l.rel = "next").url

\* A client without the workaround for the 404 of an empty tag listing.
NoWorkaround(status_code, path) == FALSE

\* A client that takes every 404 for an empty listing.
IsAny404(status_code, path) == status_code = 404

\* e.response.status_code == 404 and url_part.endswith("/tags/list")
IsTagsList404(status_code, path) ==
    status_code = 404 /\ EndsWith(path, TagsListSuffix)

\* resp.get("tags", [])
GetTags(resp) == IF "tags" \in DOMAIN resp THEN resp.tags ELSE <<>>

\* tags = []; for resp in pages: tags.extend(resp.get("tags", []))
RECURSIVE ExtendTags(_)
ExtendTags(pages) ==
    IF pages = <<>> THEN <<>>
    ELSE GetTags(Head(pages)) \o ExtendTags(Tail(pages))

\* The outcome of get_tags_for_image from the outcome of its _get_all_pages:
\* an exception passes through, the pages' tags are concatenated.
TagsOutcome(caller, out) ==
    IF caller # "get_tags_for_image" THEN NoOutcome
    ELSE IF out.kind = "return" THEN Return(ExtendTags(out.value))
    ELSE out

\* get_tags_for_image(image_name) enters _get_all_pages.
GetTagsForImage(image_name) ==
    /\ PagesFrame
    /\ pg_pc = "idle"
    /\ pg_pc' = "request"
    /\ pg_caller' = "get_tags_for_image"
    /\ url_part' = TagsListPath(image_name)
    /\ responses' = <<>>
    /\ UNCHANGED <<pg_log, pg_out, tags_out>>

\* Another caller enters _get_all_pages(path).
GetAllPages(path) ==
    /\ PagesFrame
    /\ pg_pc = "idle"
    /\ pg_pc' = "request"
    /\ pg_caller' = "_get_all_pages"
    /\ url_part' = path
    /\ responses' = <<>>
    /\ UNCHANGED <<pg_log, pg_out, tags_out>>

\* _get_all_pages ends with outcome out.
Finish(out) ==
    /\ pg_pc' = "done"
    /\ pg_out' = out
    /\ tags_out' = TagsOutcome(pg_caller, out)

\* One turn of the loop: the request succeeds.
PageOk(resp) ==
    /\ PagesFrame
    /\ pg_pc = "request"
    /\ HasNext(resp) => Len(responses) + 1 < MaxPages
    /\ pg_log' = Append(pg_log, [path |-> url_part, reply |-> resp])
    /\ responses' = Append(responses, resp.json)
    /\ IF ~HasNext(resp)
       THEN /\ Finish(Return(responses'))
            /\ UNCHANGED url_part
       ELSE /\ url_part' = NextUrl(resp)
            /\ UNCHANGED <<pg_pc, pg_out, tags_out>>
    /\ UNCHANGED pg_caller

\* One turn of the loop: raise_for_status() raises HTTPError.
PageHTTPError(status_code) ==
    /\ PagesFrame
    /\ pg_pc = "request"
    /\ pg_log' = Append(pg_log, [path |-> url_part,
                                 reply |-> [kind |-> "http_error",
                                            status_code |-> status_code]])
    /\ IF IsTagsList404(status_code, url_part)
       THEN Finish(Return(responses))
       ELSE Finish(Raise("RegistryError", url_part))
    /\ UNCHANGED <<pg_caller, url_part, responses>>

\* One turn of the loop: the session raises another RequestException.
PageTransportError ==
    /\ PagesFrame
    /\ pg_pc = "request"
    /\ pg_log' = Append(pg_log, [path |-> url_part,
                                 reply |-> [kind |-> "transport_error"]])
    /\ Finish(Raise("RegistryError", url_part))
    /\ UNCHANGED <<pg_caller, url_part, responses>>

PagesInit ==
    /\ pg_pc = "idle"
    /\ pg_caller = "none"
    /\ url_part = <<>>
    /\ responses = <<>>
    /\ pg_log = <<>>
    /\ pg_out = NoOutcome
    /\ tags_out = NoOutcome

StartPaths == {CatalogPath, ManifestPath(ImgA, T1)}

PagesNext ==
    \/ \E image_name \in PageImages : GetTagsForImage(image_name)
    \/ \E path \in StartPaths : GetAllPages(path)
    \/ \E resp \in OkReplies : PageOk(resp)
    \/ \E status_code \in ErrorStatusCodes : PageHTTPError(status_code)
    \/ PageTransportError

(***************************************************************************)
(* The filter rules of reporter.py.                                        *)
(*                                                                         *)
(* A section of the filter file is the mapping configparser hands to the   *)
(* code (a SectionProxy: the section's keys with those of DEFAULT): a      *)
(* function from the keys it holds to their values.                        *)
(***************************************************************************)
RegexPrefix == <<"r", "e", "g", "e", "x", ":">>
ContainsPrefix == <<"c", "o", "n", "t", "a", "i", "n", "s", ":">>
Include == <<"i", "n", "c", "l", "u", "d", "e">>
Exclude == <<"e", "x", "c", "l", "u", "d", "e">>

\* A rule that is neither regex: nor contains:.
BadSyntax == <<"b", "r", "e", "a", "d", ":", "a">>
\* A regex: rule whose pattern does not compile.
BadRegex == RegexPrefix \o <<"(">>

NameRules == {RegexPrefix \o <<"b", "$">>, ContainsPrefix \o <<"b">>, BadSyntax, BadRegex}
TagRules == {RegexPrefix \o <<"1", "$">>, ContainsPrefix \o <<"1">>, BadSyntax, BadRegex}
NameMatchRules == {ContainsPrefix \o <<"a">>, BadSyntax, BadRegex}
Actions == {Include, Exclude}

RuleValues(key) ==
    CASE key = "name" -> NameRules
      [] key = "tag" -> TagRules
      [] key = "name_match" -> NameMatchRules
      [] key = "action" -> Actions

\* The key sets of the sections read: image rules, tag rules, sections with
\* no condition, and sections giving both a name and a tag.
SectionKeySets ==
    { S \in SUBSET {"name", "tag", "name_match", "action"} :
        ("name" \in S /\ "tag" \in S) => S = {"name", "tag"} }

Sections ==
    UNION { { rules \in [S -> NameRules \cup TagRules \cup NameMatchRules \cup Actions] :
                \A key \in S : rules[key] \in RuleValues(key) } :
            S \in SectionKeySets }

\* The image names and tags the filters are called with.
ProbeImages == {<<"a">>, <<"a", "b">>, <<"b", "/", "c">>}
ProbeTags == {<<"1">>, <<"1", "2">>, <<"2">>}

None == [kind |-> "None"]

\* re.compile(pattern), for patterns of literals, ".", "^" and "$"; an
\* unclosed "(" is the pattern that does not compile.
ReCompile(pattern) ==
    IF \E i \in 1..Len(pattern) : pattern[i] = "("
    THEN Raise("re.error", pattern)
    ELSE Return(pattern)

\* Whether the compiled pattern matches s from position i on.
RECURSIVE MatchAt(_, _, _)
MatchAt(pattern, s, i) ==
    IF pattern = <<>> THEN TRUE
    ELSE LET c == Head(pattern)
             rest == Tail(pattern)
         IN  CASE c = "^" -> i = 1 /\ MatchAt(rest, s, i)
               [] c = "$" -> i = Len(s) + 1 /\ MatchAt(rest, s, i)
               [] c = "." -> i <= Len(s) /\ MatchAt(rest, s, i + 1)
               [] OTHER -> i <= Len(s) /\ s[i] = c /\ MatchAt(rest, s, i + 1)

\* A matcher anchored at the start of the string, as re.match is.
ReMatch(regex, x) == MatchAt(regex, x, 1)

\* bool(regex.search(x))
ReSearch(regex, x) == \E i \in 1..(Len(x) + 1) : MatchAt(regex, x, i)

\* The null rule.
isTrue == [kind |-> "isTrue"]

\* Calling what _parse_rule returned, or isTrue, on x.
CallCond(cond, x) ==
    CASE cond.kind = "regex" -> ReSearch(cond.regex, x)
      [] cond.kind = "contains" -> Contains(cond.sub, x)
      [] cond.kind = "isTrue" -> TRUE

\* _parse_rule(rule)
_parse_rule(rule) ==
    IF StartsWith(rule, RegexPrefix)
    THEN LET regex == ReCompile(SliceFrom(rule, 6))
         IN  IF regex.kind = "raise" THEN regex
             ELSE Return([kind |-> "regex", regex |-> regex.value])
    ELSE IF StartsWith(rule, ContainsPrefix)
         THEN Return([kind |-> "contains", sub |-> SliceFrom(rule, 9)])
         ELSE Raise("ValueError", rule)

\* rules.get("action", "include")
GetAction(rules) == IF "action" \in DOMAIN rules THEN rules["action"] ELSE Include

\* _image(rules): None for an invalid rule, else the predicate on names.
_image(rules) ==
    LET name_cond == _parse_rule(rules["name"])
    IN  IF name_cond.kind = "raise"
        THEN IF name_cond.exc = "ValueError" THEN Return(None) ELSE name_cond
        ELSE Return([kind |-> "image",
                     name_cond |-> name_cond.value,
                     negate |-> GetAction(rules) = Exclude])

\* _tag(rules): None for an invalid rule, else the closure _condition, which
\* holds name_cond, tag_cond and rules.
_tag(rules) ==
    LET name_match == IF "name_match" \in DOMAIN rules
                      THEN _parse_rule(rules["name_match"])
                      ELSE Raise("KeyError", <<>>)
    IN  IF name_match.kind = "raise" /\ name_match.exc = "ValueError"
        THEN Return(None)
        ELSE IF name_match.kind = "raise" /\ name_match.exc # "KeyError"
        THEN name_match
        ELSE LET name_cond == IF name_match.kind = "raise" THEN isTrue
                              ELSE name_match.value
                 tag_cond == _parse_rule(rules["tag"])
             IN  IF tag_cond.kind = "raise"
                 THEN IF tag_cond.exc = "ValueError" THEN Return(None) ELSE tag_cond
                 ELSE Return([kind |-> "tag",
                              name_cond |-> name_cond,
                              tag_cond |-> tag_cond.value,
                              rules |-> rules])

\* A _condition that votes on the tag whatever the image is.
ConditionIgnoresName(fn, data) ==
    IF GetAction(fn.rules) = Exclude
    THEN ~CallCond(fn.tag_cond, data[2])
    ELSE CallCond(fn.tag_cond, data[2])

\* _condition(data), the tag filter _tag returns; data is (image, tag).
_condition(fn, data) ==
    IF ~CallCond(fn.name_cond, data[1]) THEN TRUE
    ELSE IF GetAction(fn.rules) = Exclude
         THEN ~CallCond(fn.tag_cond, data[2])
         ELSE CallCond(fn.tag_cond, data[2])

\* The image filter _image returns, called on name.
CallImageFilter(fn, name) ==
    IF fn.negate THEN ~CallCond(fn.name_cond, name)
    ELSE CallCond(fn.name_cond, name)

(***************************************************************************)
(* reporter._filters_from_file, one section per step, and the calls of the *)
(* filters it returned.                                                    *)
(***************************************************************************)
\* The rule a section gives: _tag(rules) with a tag, _image(rules) with a
\* name and no tag, nothing with neither.
RuleOf(rules) ==
    IF "tag" \in DOMAIN rules THEN _tag(rules)
    ELSE IF "name" \in DOMAIN rules THEN _image(rules)
    ELSE Return(None)

\* The body of the loop over config.items(), for one section.
LoadRule ==
    /\ ff_pc = "loading"
    /\ ff_last.n < MaxSections
    /\ RulesFrame
    /\ \E rules \in Sections :
          /\ ff_last' = [n |-> ff_last.n + 1, rules |-> rules,
                         n_img |-> Len(image_filters), n_tag |-> Len(tag_filters)]
          /\ LET rule == RuleOf(rules)
             IN  IF rule.kind = "raise"
                 THEN /\ ff_pc' = "done"
                      /\ ff_out' = rule
                      /\ UNCHANGED <<image_filters, tag_filters>>
                 ELSE /\ tag_filters' =
                           IF "tag" \in DOMAIN rules /\ rule.value # None
                           THEN Append(tag_filters, rule.value) ELSE tag_filters
                      /\ image_filters' =
                           IF "tag" \notin DOMAIN rules /\ rule.value # None
                           THEN Append(image_filters, rule.value) ELSE image_filters
                      /\ UNCHANGED <<ff_pc, ff_out>>
    /\ UNCHANGED <<pr_data, img_votes, tag_votes>>

\* The loop is over: return (image_filters, tag_filters).
FiltersFromFileReturn ==
    /\ ff_pc = "loading"
    /\ RulesFrame
    /\ ff_pc' = "done"
    /\ ff_out' = Return(<<image_filters, tag_filters>>)
    /\ UNCHANGED <<image_filters, tag_filters, ff_last, pr_data, img_votes, tag_votes>>

\* The browser calls every returned filter: fn(img) for the image filters,
\* fn((image_name, tag)) for the tag filters.
CallFilters ==
    /\ ff_pc = "done"
    /\ ff_out.kind = "return"
    /\ pr_data = <<>>
    /\ RulesFrame
    /\ \E image \in ProbeImages, tag \in ProbeTags :
          /\ pr_data' = <<image, tag>>
          /\ img_votes' = [i \in 1..Len(ff_out.value[1]) |->
                              CallImageFilter(ff_out.value[1][i], image)]
          /\ tag_votes' = [i \in 1..Len(ff_out.value[2]) |->
                              _condition(ff_out.value[2][i], <<image, tag>>)]
    /\ UNCHANGED <<ff_pc, image_filters, tag_filters, ff_last, ff_out>>

RulesInit ==
    /\ ff_pc = "loading"
    /\ image_filters = <<>>
    /\ tag_filters = <<>>
    /\ ff_last = [n |-> 0]
    /\ ff_out = NoOutcome
    /\ pr_data = <<>>
    /\ img_votes = <<>>
    /\ tag_votes = <<>>

RulesNext ==
    \/ LoadRule
    \/ FiltersFromFileReturn
    \/ CallFilters

(***************************************************************************)
(* RegistryBrowser.sort_tags.                                              *)
(*                                                                         *)
(* A JSON value is a record tagged with its Python type. The text of a     *)
(* v1Compatibility document is a str known by what json.loads makes of it. *)
(***************************************************************************)
PyStr(s) == [t |-> "str", v |-> s]
PyInt(n) == [t |-> "int", v |-> n]
PyList(l) == [t |-> "list", v |-> l]
PyDict(d) == [t |-> "dict", v |-> d]
JsonText(loads) == [t |-> "str", loads |-> loads]

\* The rest of a computation, unless an exception is on its way.
Bind(out, Rest(_)) == IF out.kind = "raise" THEN out ELSE Rest(out.value)

\* obj[key] for a str key.
GetKey(obj, key) ==
    IF obj.t = "dict"
    THEN IF key \in DOMAIN obj.v THEN Return(obj.v[key]) ELSE Raise("KeyError", key)
    ELSE Raise("TypeError", key)

\* obj[0]
GetFirst(obj) ==
    CASE obj.t = "list" -> IF obj.v # <<>> THEN Return(obj.v[1])
                           ELSE Raise("IndexError", 0)
      [] obj.t = "str" -> IF obj.v # <<>> THEN Return(PyStr(<<obj.v[1]>>))
                          ELSE Raise("IndexError", 0)
      [] obj.t = "dict" -> Raise("KeyError", 0)
      [] OTHER -> Raise("TypeError", 0)

\* history[0]
FirstHistory(history) == GetFirst(history)

\* json.loads(data)
JsonLoads(data) ==
    IF data.t = "str" THEN data.loads ELSE Raise("TypeError", <<>>)

\* s.split(sep) on the characters of s, for a separator of one character.
RECURSIVE SplitChars(_, _, _)
SplitChars(s, sep, part) ==
    IF s = <<>> THEN <<part>>
    ELSE IF Head(s) = sep THEN <<part>> \o SplitChars(Tail(s), sep, <<>>)
    ELSE SplitChars(Tail(s), sep, Append(part, Head(s)))

\* created.split(".")
StrSplit(obj, sep) ==
    IF obj.t = "str" THEN Return(SplitChars(obj.v, sep, <<>>))
    ELSE Raise("AttributeError", <<>>)

\* date_str, _ = parts
Unpack2(parts) ==
    IF Len(parts) = 2 THEN Return(parts) ELSE Raise("ValueError", <<>>)

DigitChars == <<"0", "1", "2", "3", "4", "5", "6", "7", "8", "9">>

IsDigits(s) == \A i \in 1..Len(s) : \E d \in 1..10 : DigitChars[d] = s[i]

RECURSIVE DigitsValue(_)
DigitsValue(s) ==
    IF s = <<>> THEN 0
    ELSE 10 * DigitsValue(SubSeq(s, 1, Len(s) - 1))
         + (CHOOSE d \in 0..9 : DigitChars[d + 1] = s[Len(s)])

DaysInMonth(year, month) ==
    IF month = 2
    THEN IF (year % 4 = 0 /\ year % 100 # 0) \/ year % 400 = 0 THEN 29 ELSE 28
    ELSE IF month \in {4, 6, 9, 11} THEN 30 ELSE 31

\* datetime.strptime(date_str, "%Y-%m-%dT%H:%M:%S"): a year of four digits,
\* the other fields of one or two digits, between the literals - - T : :
\* (the T in either case), and a date that exists. The datetime is the tuple
\* of its fields, ordered as datetimes are.
strptime(date_str) ==
    LET halves == IF \E i \in 1..Len(date_str) : date_str[i] = "t"
                  THEN SplitChars(date_str, "t", <<>>)
                  ELSE SplitChars(date_str, "T", <<>>)
        shaped == /\ Len(halves) = 2
                  /\ Len(SplitChars(halves[1], "-", <<>>)) = 3
                  /\ Len(SplitChars(halves[2], ":", <<>>)) = 3
        ymd == SplitChars(halves[1], "-", <<>>)
        hms == SplitChars(halves[2], ":", <<>>)
        fields == ymd \o hms
        digits == /\ Len(ymd[1]) = 4
                  /\ \A k \in 2..6 : Len(fields[k]) \in {1, 2}
                  /\ \A k \in 1..6 : IsDigits(fields[k])
        dt == [k \in 1..6 |-> DigitsValue(fields[k])]
    IN  IF /\ shaped
           /\ digits
           /\ dt[1] >= 1
           /\ dt[2] \in 1..12
           /\ dt[3] \in 1..DaysInMonth(dt[1], dt[2])
           /\ dt[4] \in 0..23
           /\ dt[5] \in 0..59
           /\ dt[6] \in 0..59
        THEN Return(dt)
        ELSE Raise("ValueError", date_str)

\* a <= b for datetimes.
RECURSIVE DateLeq(_, _)
DateLeq(a, b) ==
    IF a = <<>> THEN TRUE
    ELSE IF Head(a) # Head(b) THEN Head(a) < Head(b)
    ELSE DateLeq(Tail(a), Tail(b))

\* "Could not sort {}".format(image)
CouldNotSort(image) ==
    <<"C", "o", "u", "l", "d", " ", "n", "o", "t", " ", "s", "o", "r", "t", " ">> \o image

\* The exceptions get_tag_date turns into RegistryBrowserError.
Caught == {"KeyError", "IndexError", "TypeError", "JSONDecodeError"}

\* get_tag_date(tag), with fetch what _get_all_pages does for each path.
get_tag_date(image, tag, fetch) ==
    LET data ==
            Bind(fetch[ManifestPath(image, tag)], LAMBDA pages :
            Bind(GetFirst(PyList(pages)), LAMBDA page :
            Bind(GetKey(page, "history"), LAMBDA history :
            Bind(FirstHistory(history), LAMBDA element :
            GetKey(element, "v1Compatibility")))))
        date ==
            Bind(data, LAMBDA text :
            Bind(JsonLoads(text), LAMBDA doc :
            Bind(GetKey(doc, "created"), LAMBDA created :
            Bind(StrSplit(created, "."), LAMBDA parts :
            Bind(Unpack2(parts), LAMBDA pair :
            strptime(pair[1]))))))
    IN  IF date.kind = "raise" /\ date.exc \in Caught
        THEN Raise("RegistryBrowserError", CouldNotSort(image))
        ELSE date

\* The keys sorted() computes, in list order, up to the first that raises.
RECURSIVE SortKeys(_, _, _)
SortKeys(image, tags, fetch) ==
    IF tags = <<>> THEN Return(<<>>)
    ELSE Bind(get_tag_date(image, Head(tags), fetch), LAMBDA key :
         Bind(SortKeys(image, Tail(tags), fetch), LAMBDA keys :
         Return(<<key>> \o keys)))

\* item goes before the first element of the sorted list that is newer.
RECURSIVE InsertByKey(_, _)
InsertByKey(sorted, item) ==
    IF sorted = <<>> THEN <<item>>
    ELSE IF DateLeq(Head(sorted).key, item.key)
         THEN <<Head(sorted)>> \o InsertByKey(Tail(sorted), item)
         ELSE <<item>> \o sorted

\* A sort that puts the newest first.
RECURSIVE InsertNewestFirst(_, _)
InsertNewestFirst(sorted, item) ==
    IF sorted = <<>> THEN <<item>>
    ELSE IF DateLeq(item.key, Head(sorted).key)
         THEN <<Head(sorted)>> \o InsertNewestFirst(Tail(sorted), item)
         ELSE <<item>> \o sorted

\* One step of the stable sort: the next item is put in its place.
SortInsert(sorted, item) == InsertByKey(sorted, item)

\* sorted(tags, key=...) once the keys are known: stable, ascending.
RECURSIVE StableSort(_, _)
StableSort(items, sorted) ==
    IF items = <<>> THEN [i \in 1..Len(sorted) |-> sorted[i].tag]
    ELSE StableSort(Tail(items), SortInsert(sorted, Head(items)))

\* sort_tags(image, tags)
sort_tags(image, tags, fetch) ==
    Bind(SortKeys(image, tags, fetch), LAMBDA keys :
    Return(StableSort([i \in 1..Len(tags) |-> [tag |-> tags[i], key |-> keys[i]]],
                      <<>>)))

(***************************************************************************)
(* The manifests a registry serves for the tags that are sorted.           *)
(***************************************************************************)
Pad2(n) == <<DigitChars[(n \div 10) + 1], DigitChars[(n % 10) + 1]>>
Pad4(n) == Pad2(n \div 100) \o Pad2(n % 100)

\* A timestamp <<year, month, day, hour, minute, second>> as the registry
\* writes it, without the fraction.
IsoSeconds(ts) ==
    Pad4(ts[1]) \o <<"-">> \o Pad2(ts[2]) \o <<"-">> \o Pad2(ts[3]) \o <<"T">>
       \o Pad2(ts[4]) \o <<":">> \o Pad2(ts[5]) \o <<":">> \o Pad2(ts[6])

\* "2018-05-15T13:32:36.023166904Z"
IsoNano(ts, fraction) == IsoSeconds(ts) \o <<".">> \o fraction \o <<"Z">>

May15 == <<2018, 5, 15, 13, 32, 36>>
Apr15 == <<2018, 4, 15, 13, 32, 36>>
Layer1 == <<2017, 3, 1, 0, 0, 0>>
Layer2 == <<2017, 6, 1, 0, 0, 0>>

\* One element of a manifest's history.
HistoryElement(doc) == PyDict([v1Compatibility |-> JsonText(Return(doc))])

CreatedDoc(created) == PyDict([created |-> created])

\* The pages of a manifest whose first history element holds created.
ManifestWith(created) ==
    <<PyDict([history |-> PyList(<<HistoryElement(CreatedDoc(created))>>)])>>

\* A manifest as a registry serves it: the image's own timestamp in the
\* first history element, a layer's in the next.
GoodManifest(ts, fraction, layer) ==
    <<PyDict([history |-> PyList(
        <<HistoryElement(CreatedDoc(PyStr(IsoNano(ts, fraction)))),
          HistoryElement(CreatedDoc(PyStr(IsoNano(layer, <<"0">>))))>>)])>>

\* The manifests served: how each was made, and its pages.
Manifests ==
    { [kind |-> "good", ts |-> May15,
       pages |-> GoodManifest(May15, <<"0", "2", "3">>, Layer1)],
      [kind |-> "good", ts |-> Apr15,
       pages |-> GoodManifest(Apr15, <<"0", "2", "3">>, Layer2)],
      [kind |-> "good", ts |-> May15,
       pages |-> GoodManifest(May15, <<"9">>, Layer2)],
      [kind |-> "empty_response", ts |-> <<>>, pages |-> <<PyStr(<<>>)>>],
      [kind |-> "no_history", ts |-> <<>>,
       pages |-> <<PyDict([test |-> PyStr(<<"s">>)])>>],
      [kind |-> "empty_history", ts |-> <<>>,
       pages |-> <<PyDict([history |-> PyList(<<>>)])>>],
      [kind |-> "no_compat", ts |-> <<>>,
       pages |-> <<PyDict([history |-> PyList(<<PyDict([a |-> PyStr(<<"b">>)])>>)])>>],
      [kind |-> "bad_json", ts |-> <<>>,
       pages |-> <<PyDict([history |-> PyList(
                    <<PyDict([v1Compatibility |->
                        JsonText(Raise("JSONDecodeError", <<"}">>))])>>)])>>],
      [kind |-> "no_created", ts |-> <<>>,
       pages |-> <<PyDict([history |-> PyList(
                    <<HistoryElement(PyDict([test |-> PyStr(<<"y">>)]))>>)])>>],
      [kind |-> "created_not_str", ts |-> <<>>, pages |-> ManifestWith(PyInt(5))],
      [kind |-> "no_dot", ts |-> <<>>,
       pages |-> ManifestWith(PyStr(IsoSeconds(May15) \o <<"Z">>))],
      [kind |-> "two_dots", ts |-> <<>>,
       pages |-> ManifestWith(PyStr(IsoSeconds(May15) \o <<".", "0", "+", "0", "1", ".", "0">>))],
      [kind |-> "bad_date", ts |-> <<>>,
       pages |-> ManifestWith(PyStr(
                    SubSeq(IsoSeconds(May15), 1, 10) \o <<" ">>
                       \o SubSeq(IsoSeconds(May15), 12, 19) \o <<".", "0", "Z">>))],
      [kind |-> "fetch_fails", ts |-> <<>>, pages |-> <<>>] }

SortImages == {ImgA}
SortTags == {T1, T2, T3}

\* The lists of distinct tags, of at most MaxTags tags.
TagLists ==
    { tags \in UNION { [1..n -> SortTags] : n \in 0..MaxTags } :
        \A i, j \in 1..Len(tags) : i # j => tags[i] # tags[j] }

\* sort_tags(image, tags), against a registry serving, for each tag, one of
\* the manifests.
SortTagsCall(image, tags) ==
    /\ SortFrame
    /\ st_pc = "idle"
    /\ st_pc' = "done"
    /\ st_image' = image
    /\ st_tags' = tags
    /\ \E made \in [{tags[i] : i \in 1..Len(tags)} -> Manifests] :
          /\ st_made' = made
          /\ st_fetch' =
                [path \in {ManifestPath(image, tags[i]) : i \in 1..Len(tags)} |->
                    LET tag == CHOOSE t \in DOMAIN made : ManifestPath(image, t) = path
                    IN  IF made[tag].kind = "fetch_fails"
                        THEN Raise("RegistryError", path)
                        ELSE Return(made[tag].pages)]
    /\ st_out' = sort_tags(image, tags, st_fetch')

SortInit ==
    /\ st_pc = "idle"
    /\ st_image = <<>>
    /\ st_tags = <<>>
    /\ st_fetch = <<>>
    /\ st_made = <<>>
    /\ st_out = NoOutcome

SortNext ==
    \E image \in SortImages, tags \in TagLists : SortTagsCall(image, tags)

(***************************************************************************)
(* RegistryBrowser._get_images_list and get_image_tags, and                *)
(* reporter.setup_browser, which installs the filters they apply.          *)
(*                                                                         *)
(* A filter is a record of what the function closes over; calling it is    *)
(* CallNameFilter or CallTagFilter. A dict is its keys in insertion order  *)
(* with its mapping.                                                       *)
(***************************************************************************)
\* any(votes)
PyAny(votes) == \E i \in 1..Len(votes) : votes[i]

\* all(votes): the votes are taken in list order, up to the first that is
\* false.
RECURSIVE PyAll(_)
PyAll(votes) ==
    IF votes = <<>> THEN TRUE
    ELSE IF ~Head(votes) THEN FALSE
    ELSE PyAll(Tail(votes))

\* exclude_namespaces(name)
exclude_namespaces(fn, name) ==
    ~\E i \in 1..Len(fn.namespaces) : StartsWith(name, fn.namespaces[i])

\* The characters of [a-zA-Z0-9].
AsciiAlnum ==
    { "a", "b", "c", "d", "e", "f", "g", "h", "i", "j", "k", "l", "m",
      "n", "o", "p", "q", "r", "s", "t", "u", "v", "w", "x", "y", "z",
      "A", "B", "C", "D", "E", "F", "G", "H", "I", "J", "K", "L", "M",
      "N", "O", "P", "Q", "R", "S", "T", "U", "V", "W", "X", "Y", "Z",
      "0", "1", "2", "3", "4", "5", "6", "7", "8", "9" }

\* sha1regex.search(s) for ^[a-zA-Z0-9]{40}$, s a tag of one line.
Sha1Search(s) == Len(s) = 40 /\ \A i \in 1..Len(s) : s[i] \in AsciiAlnum

\* exclude_naked(data)
exclude_naked(data) == ~Sha1Search(data[2])

\* exclude_tag_regexp(data)
exclude_tag_regexp(fn, data) ==
    ~\E i \in 1..Len(fn.regexes) : ReSearch(fn.regexes[i], data[2])

\* fnmatch is computed on the characters of the pattern as
\* fnmatch.translate reads them: "*", "?", a set in brackets, or a literal
\* character; the patterns of the model hold no range in a set.
\* The index in s, from index from on, of the first "]", or 0.
RECURSIVE FindClose(_, _)
FindClose(s, from) ==
    IF from > Len(s) THEN 0
    ELSE IF s[from] = "]" THEN from
    ELSE FindClose(s, from + 1)

\* For what follows a "[" in a pattern: where the set ends (0 when the
\* bracket is not closed, and so stands for itself), its characters, and
\* whether it is negated.
BracketSet(rest) ==
    LET negated == rest # <<>> /\ rest[1] = "!"
        j1 == IF negated THEN 2 ELSE 1
        j2 == IF j1 <= Len(rest) /\ rest[j1] = "]" THEN j1 + 1 ELSE j1
        close == FindClose(rest, j2)
    IN  [close |-> close,
         negated |-> negated,
         chars |-> IF close = 0 THEN {}
                   ELSE {rest[k] : k \in j1..(close - 1)}]

\* A "*" that stands for exactly one character, which is not fnmatch's.
RECURSIVE StarIsOneChar(_, _)
StarIsOneChar(name, pat) ==
    IF pat = <<>> THEN name = <<>>
    ELSE IF name = <<>> THEN FALSE
    ELSE IF Head(pat) \in {"*", "?"} THEN StarIsOneChar(Tail(name), Tail(pat))
    ELSE Head(name) = Head(pat) /\ StarIsOneChar(Tail(name), Tail(pat))

\* fnmatch.fnmatchcase(name, pat): the whole name matches the pattern.
RECURSIVE fnmatchcase(_, _)
fnmatchcase(name, pat) ==
    IF pat = <<>> THEN name = <<>>
    ELSE IF Head(pat) = "*"
    THEN \/ fnmatchcase(name, Tail(pat))
         \/ name # <<>> /\ fnmatchcase(Tail(name), pat)
    ELSE IF Head(pat) = "?"
    THEN name # <<>> /\ fnmatchcase(Tail(name), Tail(pat))
    ELSE IF Head(pat) = "[" /\ BracketSet(Tail(pat)).close # 0
    THEN LET set == BracketSet(Tail(pat))
         IN  /\ name # <<>>
             /\ (Head(name) \in set.chars) # set.negated
             /\ fnmatchcase(Tail(name), SubSeq(pat, set.close + 2, Len(pat)))
    ELSE name # <<>> /\ Head(name) = Head(pat) /\ fnmatchcase(Tail(name), Tail(pat))

\* filter_glob(name) of list_images: fnmatch.fnmatch(name, filterglob), where
\* os.path.normcase changes nothing.
filter_glob(fn, name) == fnmatchcase(name, fn.filterglob)

\* fn(img) for fn in self.name_filters
CallNameFilter(fn, img) ==
    CASE fn.kind = "exclude_namespaces" -> exclude_namespaces(fn, img)
      [] fn.kind = "image" -> CallImageFilter(fn, img)
      [] fn.kind = "filter_glob" -> filter_glob(fn, img)

\* fn((image_name, tag)) for fn in self.tag_filters
CallTagFilter(fn, data) ==
    CASE fn.kind = "exclude_naked" -> exclude_naked(data)
      [] fn.kind = "exclude_tag_regexp" -> exclude_tag_regexp(fn, data)
      [] fn.kind = "tag" -> _condition(fn, data)

\* resp.get("repositories", [])
GetRepositories(resp) ==
    IF "repositories" \in DOMAIN resp THEN resp.repositories ELSE <<>>

\* [img for img in images_in_resp if all(fn(img) for fn in self.name_filters)]
SelectedImages(name_filters, images_in_resp) ==
    SelectSeq(images_in_resp, LAMBDA img :
        PyAll([i \in 1..Len(name_filters) |-> CallNameFilter(name_filters[i], img)]))

\* images.extend(selected_images), for each page of the catalog.
RECURSIVE ExtendImages(_, _)
ExtendImages(name_filters, pages) ==
    IF pages = <<>> THEN <<>>
    ELSE SelectedImages(name_filters, GetRepositories(Head(pages)))
            \o ExtendImages(name_filters, Tail(pages))

\* _get_images_list(), against a registry whose catalog query does
\* registry.catalog.
_get_images_list(name_filters, registry) ==
    Bind(registry.catalog, LAMBDA pages :
    Return(ExtendImages(name_filters, pages)))

\* [tag for tag in ... if all(fn((image_name, tag)) for fn in self.tag_filters)]
SelectedTags(filters, image_name, listed) ==
    SelectSeq(listed, LAMBDA tag :
        PyAll([i \in 1..Len(filters) |-> CallTagFilter(filters[i], <<image_name, tag>>)]))

\* {}
EmptyDict == [keys |-> <<>>, val |-> <<>>]

\* d[key] = value: a key the dict holds keeps its place.
DictSet(d, key, value) ==
    [keys |-> IF key \in DOMAIN d.val THEN d.keys ELSE Append(d.keys, key),
     val |-> [k \in DOMAIN d.val \cup {key} |-> IF k = key THEN value ELSE d.val[k]]]

\* The loop of get_image_tags, were it to store the list of every image, an
\* empty one too.
RECURSIVE ImageTagsLoopStoringAll(_, _, _, _, _)
ImageTagsLoopStoringAll(images, image_data, filters, sort, registry) ==
    IF images = <<>> THEN Return(image_data)
    ELSE LET image_name == Head(images)
         IN  Bind(registry.tags[image_name], LAMBDA listed :
             Bind(IF sort
                  THEN sort_tags(image_name,
                                 SelectedTags(filters, image_name, listed),
                                 registry.fetch)
                  ELSE Return(SelectedTags(filters, image_name, listed)),
                  LAMBDA tags :
             ImageTagsLoopStoringAll(Tail(images),
                                     DictSet(image_data, image_name, tags),
                                     filters, sort, registry)))

\* The loop of get_image_tags over the images still to visit.
RECURSIVE ImageTagsLoop(_, _, _, _, _)
ImageTagsLoop(images, image_data, filters, sort, registry) ==
    IF images = <<>> THEN Return(image_data)
    ELSE LET image_name == Head(images)
         IN  Bind(registry.tags[image_name], LAMBDA listed :
             Bind(IF sort
                  THEN sort_tags(image_name,
                                 SelectedTags(filters, image_name, listed),
                                 registry.fetch)
                  ELSE Return(SelectedTags(filters, image_name, listed)),
                  LAMBDA tags :
             ImageTagsLoop(Tail(images),
                           IF tags # <<>> THEN DictSet(image_data, image_name, tags)
                           ELSE image_data,
                           filters, sort, registry)))

\* get_image_tags(sort), for a browser holding the two filter lists.
get_image_tags(name_filters, filters, sort, registry) ==
    Bind(_get_images_list(name_filters, registry), LAMBDA images :
    ImageTagsLoop(images, EmptyDict, filters, sort, registry))

\* [re.compile(r) for r in options.exclude_tag_regexp]
RECURSIVE CompileAll(_)
CompileAll(patterns) ==
    IF patterns = <<>> THEN Return(<<>>)
    ELSE Bind(ReCompile(Head(patterns)), LAMBDA regex :
         Bind(CompileAll(Tail(patterns)), LAMBDA regexes :
         Return(<<regex>> \o regexes)))

\* _filters_from_file(filename), for a file of these sections: the pair
\* (image_filters, tag_filters) the loop of LoadRule leaves.
RECURSIVE _filters_from_file(_, _, _)
_filters_from_file(sections, img_rules, tag_rules) ==
    IF sections = <<>> THEN Return(<<img_rules, tag_rules>>)
    ELSE LET rules == Head(sections)
         IN  Bind(RuleOf(rules), LAMBDA rule :
             _filters_from_file(
                 Tail(sections),
                 IF "tag" \notin DOMAIN rules /\ rule # None
                 THEN Append(img_rules, rule) ELSE img_rules,
                 IF "tag" \in DOMAIN rules /\ rule # None
                 THEN Append(tag_rules, rule) ELSE tag_rules))

\* setup_browser(options) on the two class lists: the lists it leaves, and
\* whether it returned the browser or raised on the way.
setup_browser(options, name_filters, filters) ==
    LET names1 == IF options.exclude_namespaces # <<>>
                  THEN Append(name_filters,
                              [kind |-> "exclude_namespaces",
                               namespaces |-> options.exclude_namespaces])
                  ELSE name_filters
        tags1 == IF ~options.no_exclude_naked
                 THEN Append(filters, [kind |-> "exclude_naked"])
                 ELSE filters
        regexes == IF options.exclude_tag_regexp # <<>>
                   THEN CompileAll(options.exclude_tag_regexp)
                   ELSE Return(<<>>)
        tags2 == IF options.exclude_tag_regexp # <<>> /\ regexes.kind = "return"
                 THEN Append(tags1, [kind |-> "exclude_tag_regexp",
                                     regexes |-> regexes.value])
                 ELSE tags1
        loaded == IF options.filter_file # None
                  THEN _filters_from_file(options.filter_file.sections, <<>>, <<>>)
                  ELSE Return(<<<<>>, <<>>>>)
    IN  IF regexes.kind = "raise"
        THEN [name_filters |-> names1, tag_filters |-> tags1, out |-> regexes]
        ELSE IF loaded.kind = "raise"
        THEN [name_filters |-> names1, tag_filters |-> tags2, out |-> loaded]
        ELSE [name_filters |-> names1 \o loaded.value[1],
              tag_filters |-> tags2 \o loaded.value[2],
              out |-> Return("br")]

(***************************************************************************)
(* The options setup_browser is called with, and what the registry serves  *)
(* while get_image_tags runs.                                              *)
(***************************************************************************)
\* A tag that is a bare commit hash.
Sha1Tag == [i \in 1..40 |-> IF i % 2 = 0 THEN "a" ELSE "0"]

\* A filter file with an image rule and a tag rule.
GoodFile ==
    [sections |-> <<[name |-> ContainsPrefix \o <<"b">>],
                    [tag |-> RegexPrefix \o <<"1", "$">>, action |-> Exclude]>>]

\* A filter file whose only rule holds a pattern that does not compile.
BadFile == [sections |-> <<[name |-> BadRegex]>>]

BrowserOptions ==
    [exclude_namespaces : {<<>>, <<<<"z">>, <<"b">>>>},
     no_exclude_naked : BOOLEAN,
     exclude_tag_regexp : {<<>>, <<<<"l">>>>},
     filter_file : {None, GoodFile, BadFile}]

ImgAB == <<"a", "b">>
BrowseImages == {ImgA, ImgAB, ImgB}
BrowseTags == {T1, T2, T3, Sha1Tag}

\* What _get_all_pages("/v2/_catalog") does.
Catalogs ==
    { Return(<<[repositories |-> <<ImgA, ImgAB, ImgB>>]>>),
      Return(<<[repositories |-> <<ImgB>>], [repositories |-> <<ImgAB, ImgA>>]>>),
      Return(<<[repositories |-> <<ImgA>>], [name |-> ImgA],
               [repositories |-> <<ImgA>>]>>),
      Raise("RegistryError", CatalogPath) }

\* What get_tags_for_image(image_name) does; the listing of one of the
\* images is always the same.
TagListings(image_name) ==
    IF image_name = ImgB THEN { Return(<<T1, T2>>) }
    ELSE { Return(<<>>),
           Return(<<T1, T2>>),
           Return(<<Sha1Tag, T3, T1>>),
           Raise("RegistryError", TagsListPath(image_name)) }

ManifestOfKind(kind, ts) == CHOOSE m \in Manifests : m.kind = kind /\ m.ts = ts

\* How the manifest of each tag was made: all with a date, or one without.
GoodDates ==
    [tag \in BrowseTags |->
        IF tag \in {T1, T3} THEN ManifestOfKind("good", May15)
        ELSE ManifestOfKind("good", Apr15)]

FaultyDates == [GoodDates EXCEPT ![T1] = ManifestOfKind("no_dot", <<>>)]

\* What _get_all_pages does for each manifest path.
ManifestFetch(made) ==
    [path \in {ManifestPath(image, tag) : image \in BrowseImages, tag \in BrowseTags} |->
        Return(made[CHOOSE tag \in BrowseTags :
                       \E image \in BrowseImages : ManifestPath(image, tag) = path].pages)]

\* The registries a call of get_image_tags(sort) can meet; the manifests
\* matter to a call that sorts.
Registries(sort) ==
    [catalog : Catalogs,
     tags : { listing \in [BrowseImages -> UNION {TagListings(i) : i \in BrowseImages}] :
                \A i \in BrowseImages : listing[i] \in TagListings(i) },
     fetch : IF sort THEN {ManifestFetch(GoodDates), ManifestFetch(FaultyDates)}
             ELSE {ManifestFetch(GoodDates)}]

\* br = setup_browser(options)
SetupBrowser(options) ==
    /\ BrowseFrame
    /\ br_pc = "idle"
    /\ Len(browsers) < MaxSetups
    /\ LET done == setup_browser(options, cls_name_filters, cls_tag_filters)
       IN  /\ cls_name_filters' = done.name_filters
           /\ cls_tag_filters' = done.tag_filters
           /\ br_out' = done.out
           /\ br_pc' = IF done.out.kind = "raise" THEN "done" ELSE "idle"
    /\ browsers' = Append(browsers, options)
    /\ UNCHANGED <<br_sort, br_registry, br_images>>

\* br.get_image_tags(sort), on the browser set up last, against one of the
\* registries.
GetImageTags(sort) ==
    /\ BrowseFrame
    /\ br_pc = "idle"
    /\ browsers # <<>>
    /\ br_pc' = "done"
    /\ br_sort' = sort
    /\ \E registry \in Registries(sort) :
          /\ br_registry' = registry
          /\ br_images' = _get_images_list(cls_name_filters, registry)
          /\ br_out' = get_image_tags(cls_name_filters, cls_tag_filters, sort, registry)
    /\ UNCHANGED <<cls_name_filters, cls_tag_filters, browsers>>

BrowseInit ==
    /\ br_pc = "idle"
    /\ cls_name_filters = <<>>
    /\ cls_tag_filters = <<>>
    /\ browsers = <<>>
    /\ br_sort = FALSE
    /\ br_registry = <<>>
    /\ br_images = NoOutcome
    /\ br_out = NoOutcome

BrowseNext ==
    \/ \E options \in BrowserOptions : SetupBrowser(options)
    \/ \E sort \in BOOLEAN : GetImageTags(sort)

(***************************************************************************)
(* The browsers of one process: every call of reporter.setup_browser and   *)
(* of registryctl.list_images creates a RegistryBrowser and appends to     *)
(* br.name_filters and br.tag_filters, which are the lists of the class.   *)
(***************************************************************************)
\* list_images(registry, filterglob) on the two class lists: the lists it
\* leaves, and the mapping it printed or the exception it raised.
list_images(filterglob, name_filters, filters, registry) ==
    LET names1 == Append(name_filters,
                         [kind |-> "filter_glob", filterglob |-> filterglob])
        tags1 == Append(filters, [kind |-> "exclude_naked"])
    IN  [name_filters |-> names1,
         tag_filters |-> tags1,
         out |-> get_image_tags(names1, tags1, TRUE, registry)]

\* The values of --select.
ListGlobs == {<<"*">>, <<"a", "*">>}

\* The registries list_images is run against.
ListRegistries ==
    { r \in Registries(TRUE) :
        /\ r.catalog = Return(<<[repositories |-> <<ImgA, ImgAB, ImgB>>]>>)
        /\ r.fetch = ManifestFetch(GoodDates)
        /\ r.tags[ImgAB] = Return(<<T1, T2>>)
        /\ r.tags[ImgA] \in {Return(<<Sha1Tag, T3, T1>>),
                             Raise("RegistryError", TagsListPath(ImgA))} }

\* br = setup_browser(options), in a process that may hold browsers already.
CallSetupBrowser ==
    /\ br_pc = "idle"
    /\ Len(browsers) < MaxBrowsers
    /\ BrowseFrame
    /\ \E options \in BrowserOptions :
          LET done == setup_browser(options, cls_name_filters, cls_tag_filters)
          IN  /\ cls_name_filters' = done.name_filters
              /\ cls_tag_filters' = done.tag_filters
              /\ br_out' = done.out
              /\ br_pc' = IF done.out.kind = "raise" THEN "done" ELSE "idle"
              /\ browsers' = Append(browsers, options)
    /\ UNCHANGED <<br_sort, br_registry, br_images>>

\* list_images(registry, filterglob), in a process that may hold browsers
\* already.
CallListImages ==
    /\ br_pc = "idle"
    /\ Len(browsers) < MaxBrowsers
    /\ BrowseFrame
    /\ \E filterglob \in ListGlobs, registry \in ListRegistries :
          LET done == list_images(filterglob, cls_name_filters, cls_tag_filters,
                                  registry)
          IN  /\ cls_name_filters' = done.name_filters
              /\ cls_tag_filters' = done.tag_filters
              /\ br_sort' = TRUE
              /\ br_registry' = registry
              /\ br_images' = _get_images_list(done.name_filters, registry)
              /\ br_out' = done.out
              /\ br_pc' = IF done.out.kind = "raise" THEN "done" ELSE "idle"
              /\ browsers' = Append(browsers, [filterglob |-> filterglob])

ProcessNext ==
    \/ CallSetupBrowser
    \/ CallListImages

(***************************************************************************)
(* reporter.main: the scratch directory, the browser, the Reporter, the    *)
(* thread pool that maps run_report over get_images(), the summary, the    *)
(* exception handler, the cleanup and the exit.                            *)
(*                                                                         *)
(* A future is a record of its image, its state ("pending", "running",     *)
(* "finished", "cancelled"), what the external reporter does for the image *)
(* and what run_report did.                                                *)
(***************************************************************************)
\* except RegistryError, were it to catch the class alone and not its
\* subclass.
OnlyRegistryError == {"RegistryError"}

\* The exceptions `except RegistryError` catches: the class and its subclass.
RegistryErrors == {"RegistryError", "RegistryBrowserError"}

\* "{}/{}:{}".format(self._browser.registry_url, name, tag)
_image_full_name(registry_url, name, tag) ==
    registry_url \o <<"/">> \o name \o <<":">> \o tag

\* tags[0], which is not what get_images takes.
FirstOf(tags) ==
    IF tags = <<>> THEN Raise("IndexError", <<>>) ELSE Return(tags[1])

\* tags[-1]
LastOf(tags) ==
    IF tags = <<>> THEN Raise("IndexError", <<>>) ELSE Return(tags[Len(tags)])

\* The loop of get_images over the items of the mapping still to visit: what
\* it yielded, and how it ended.
RECURSIVE YieldImages(_, _, _, _)
YieldImages(registry_url, names, image_data, yields) ==
    IF names = <<>> THEN [yields |-> yields, out |-> Return(None)]
    ELSE LET tag == LastOf(image_data[Head(names)])
         IN  IF tag.kind = "raise" THEN [yields |-> yields, out |-> tag]
             ELSE YieldImages(registry_url, Tail(names), image_data,
                              Append(yields,
                                     _image_full_name(registry_url, Head(names),
                                                      tag.value)))

\* get_images(), were it to catch every exception as it catches
\* RegistryError.
get_images_catching_all(registry_url, exitcode, found) ==
    IF found.kind = "raise"
    THEN [yields |-> <<>>, exitcode |-> 2, out |-> Return(None)]
    ELSE LET loop == YieldImages(registry_url, found.value.keys, found.value.val, <<>>)
         IN  [yields |-> loop.yields, exitcode |-> exitcode, out |-> loop.out]

\* get_images(), with found what self._browser.get_image_tags(sort=True)
\* did: what the generator yields, the exit code it leaves, and how it ends.
get_images(registry_url, exitcode, found) ==
    IF found.kind = "raise"
    THEN IF found.exc \in RegistryErrors
         THEN [yields |-> <<>>, exitcode |-> 2, out |-> Return(None)]
         ELSE [yields |-> <<>>, exitcode |-> exitcode, out |-> found]
    ELSE LET loop == YieldImages(registry_url, found.value.keys, found.value.val, <<>>)
         IN  [yields |-> loop.yields, exitcode |-> exitcode, out |-> loop.out]

\* The parameters DockerReport.__init__ requires after self.
DockerReportParams == <<"image_name", "report_dir", "minimum_major">>

\* The attributes of a DockerReport: what __init__ sets, and the methods.
DockerReportAttributes ==
    {"image", "report_dir", "proxy", "file_basename", "filename", "client",
     "minimum_version", "_cmd_run", "_cmd", "_docker_cmd",
     "_extract_debian_version", "is_supported_image", "generate_report",
     "submit_report", "prune_image"}

\* str.replace(old, new), for old and new of one character.
StrReplace(s, old, new) == [i \in 1..Len(s) |-> IF s[i] = old THEN new ELSE s[i]]

\* os.path.join(a, b), for b that does not start with "/".
PathJoin(a, b) ==
    IF a = <<>> THEN b
    ELSE IF a[Len(a)] = "/" THEN a \o b
    ELSE a \o <<"/">> \o b

DebmonitorJson ==
    <<".", "d", "e", "b", "m", "o", "n", "i", "t", "o", "r", ".", "j", "s", "o", "n">>

\* "{}.debmonitor.json".format(image.replace("/", "-"))
file_basename(image) == StrReplace(image, "/", "-") \o DebmonitorJson

\* DockerReport(*args): a call with too few or too many arguments raises
\* TypeError; otherwise the attributes __init__ sets.
DockerReport(args) ==
    IF Len(args) # Len(DockerReportParams) THEN Raise("TypeError", <<>>)
    ELSE Return([image |-> args[1],
                 report_dir |-> args[2],
                 file_basename |-> file_basename(args[1]),
                 filename |-> PathJoin(args[2], file_basename(args[1])),
                 minimum_version |-> <<args[3], 0>>])

\* debmonitor.<name>
GetAttr(name) ==
    IF name \in DockerReportAttributes THEN Return(name)
    ELSE Raise("AttributeError", name)

\* What the external commands behind a DockerReport do for an image:
\* "unsupported" when the support check answers False, "report_error" when
\* the command of generate_report fails.
ReporterOutcomes == {"succeeds", "report_error", "unsupported"}

\* The methods run_report calls on the object it built, in the order of its
\* statements.
ReportCalls == <<"is_debian_image", "generate_report", "submit_report", "prune_image">>

\* The statements of the try block that follow the support check, for an
\* image the check accepts: generate_report(), submit_report(), prune_image()
\* when self._prune_images, and the append. calls are the methods called so
\* far.
AfterCheck(self, image, reporter, calls) ==
    IF reporter = "report_error"
    THEN [out |-> Raise("DockerReportError", image),
          calls |-> calls \o <<"generate_report">>]
    ELSE [out |-> Return("success"),
          calls |-> calls \o <<"generate_report", "submit_report">>
                          \o (IF self._prune_images THEN <<"prune_image">> ELSE <<>>)]

\* The try block of run_report(image): "success" when it reaches the append,
\* "unsupported" when it returns early, or what it raises; and the methods
\* of the DockerReport it called.
TryReport(self, image, reporter) ==
    LET debmonitor == DockerReport(<<image, self._tempdir>>)
        is_debian_image == GetAttr("is_debian_image")
    IN  IF debmonitor.kind = "raise" THEN [out |-> debmonitor, calls |-> <<>>]
        ELSE IF is_debian_image.kind = "raise"
        THEN [out |-> is_debian_image, calls |-> <<>>]
        ELSE IF reporter = "unsupported"
        THEN [out |-> Return("unsupported"), calls |-> <<"is_debian_image">>]
        ELSE AfterCheck(self, image, reporter, <<"is_debian_image">>)

\* run_report(image), were it to catch every exception and to keep only the
\* image that failed last.
run_report_keeping_last(self, image, reporter) ==
    LET try == TryReport(self, image, reporter)
    IN  IF try.out.kind = "raise"
        THEN [self |-> [self EXCEPT !._failed = <<image>>, !.exitcode = 3],
              out |-> Return(None), calls |-> try.calls]
        ELSE IF try.out.value = "success"
        THEN [self |-> [self EXCEPT !._success = Append(@, image)],
              out |-> Return(None), calls |-> try.calls]
        ELSE [self |-> self, out |-> Return(None), calls |-> try.calls]

\* run_report(image): the Reporter it leaves, what it did and the methods of
\* the DockerReport it called.
run_report(self, image, reporter) ==
    LET try == TryReport(self, image, reporter)
    IN  IF try.out.kind = "raise" /\ try.out.exc = "DockerReportError"
        THEN [self |-> [self EXCEPT !._failed = Append(@, image), !.exitcode = 3],
              out |-> Return(None), calls |-> try.calls]
        ELSE IF try.out.kind = "raise"
        THEN [self |-> self, out |-> try.out, calls |-> try.calls]
        ELSE IF try.out.value = "success"
        THEN [self |-> [self EXCEPT !._success = Append(@, image)],
              out |-> Return(None), calls |-> try.calls]
        ELSE [self |-> self, out |-> Return(None), calls |-> try.calls]

\* Reporter(browser, tempdir, keep_images)
Reporter(tempdir, keep_images) ==
    [exitcode |-> 0, _tempdir |-> tempdir, _prune_images |-> ~keep_images,
     _failed |-> <<>>, _success |-> <<>>]

\* pprint(): whether the first line is printed, and the lines that follow.
pprint(self) ==
    [all_correct |-> self._failed = <<>>,
     ok |-> self._success,
     fail |-> self._failed]

\* _tempdir(), when the step named by made is the one that fails ("none"
\* when none does): whether the directory exists afterwards, and what
\* _tempdir did.
_tempdir(made) ==
    IF made = "mkdtemp" THEN [dir |-> "absent", out |-> Raise("OSError", <<>>)]
    ELSE IF made = "getgrnam" THEN [dir |-> "exists", out |-> Raise("KeyError", <<>>)]
    ELSE IF made = "chown" THEN [dir |-> "exists", out |-> Raise("PermissionError", <<>>)]
    ELSE [dir |-> "exists", out |-> Return(<<"d">>)]

TempdirOutcomes == {"none", "mkdtemp", "getgrnam", "chown"}

\* How the manifest of each tag was made: one of them without a history.
UnsortableDates == [GoodDates EXCEPT ![T2] = ManifestOfKind("no_history", <<>>)]

\* The registries the discovery of main can meet.
ReportRegistries ==
    Registries(TRUE) \cup
    { [r EXCEPT !.fetch = ManifestFetch(UnsortableDates)] :
        r \in { x \in Registries(TRUE) : x.fetch = ManifestFetch(GoodDates) } }

\* The command lines main is started with.
ReportOptions ==
    [browser : { o \in BrowserOptions :
                    o.exclude_namespaces = <<>> /\ o.exclude_tag_regexp = <<>> },
     registry : {<<"r">>},
     concurrency : 1..MaxWidth,
     keep : BOOLEAN]

Running == {i \in 1..Len(mn_futures) : mn_futures[i].state = "running"}
Pending == {i \in 1..Len(mn_futures) : mn_futures[i].state = "pending"}

\* future.cancel() on every future: a pending one is cancelled, the others
\* are left as they are.
CancelAll(futures) ==
    [i \in 1..Len(futures) |->
        IF futures[i].state = "pending"
        THEN [futures[i] EXCEPT !.state = "cancelled"]
        ELSE futures[i]]

\* tempdir = _tempdir(), for the command line main was started with.
MakeTempdir ==
    /\ MainFrame
    /\ mn_pc = "start"
    /\ \E options \in ReportOptions, made \in TempdirOutcomes :
          /\ mn_options' = options
          /\ LET done == _tempdir(made)
             IN  /\ mn_dir' = done.dir
                 /\ IF done.out.kind = "return"
                    THEN /\ mn_bound' = {"tempdir"}
                         /\ mn_exc' = NoOutcome
                         /\ mn_pc' = "setup"
                    ELSE /\ mn_bound' = {}
                         /\ mn_exc' = done.out
                         /\ mn_pc' = "except"
    /\ UNCHANGED <<mn_browser, mn_report, mn_found, mn_gen, mn_futures, mn_next,
                   mn_printed, mn_status, mn_peak>>

\* registry = setup_browser(options); report = Reporter(registry, tempdir,
\* options.keep); the pool is created.
MainSetup ==
    /\ MainFrame
    /\ mn_pc = "setup"
    /\ LET done == setup_browser(mn_options.browser, <<>>, <<>>)
       IN  IF done.out.kind = "raise"
           THEN /\ mn_exc' = done.out
                /\ mn_pc' = "except"
                /\ UNCHANGED <<mn_browser, mn_report, mn_bound>>
           ELSE /\ mn_browser' = [registry_url |-> mn_options.registry,
                                  name_filters |-> done.name_filters,
                                  tag_filters |-> done.tag_filters]
                /\ mn_report' = Reporter(<<"d">>, mn_options.keep)
                /\ mn_bound' = mn_bound \cup {"registry", "report"}
                /\ mn_pc' = "map"
                /\ UNCHANGED mn_exc
    /\ UNCHANGED <<mn_options, mn_dir, mn_found, mn_gen, mn_futures, mn_next,
                   mn_printed, mn_status, mn_peak>>

\* Where main goes when the generator get_images() ends: with the pool to
\* shut down when nothing was submitted or the generator raised, to the
\* results otherwise.
AfterImages(out, futures) ==
    /\ mn_exc' = IF out.kind = "raise" THEN out ELSE NoOutcome
    /\ mn_pc' = IF out.kind = "raise" \/ futures = <<>> THEN "shutdown"
                ELSE "results"

\* The first next() of executor.map on get_images(): get_image_tags(sort=True)
\* runs against one of the registries, to its end.
Discover ==
    /\ MainFrame
    /\ mn_pc = "map"
    /\ mn_found = NoOutcome
    /\ \E registry \in ReportRegistries :
          LET found == get_image_tags(mn_browser.name_filters,
                                      mn_browser.tag_filters, TRUE, registry)
              gen == get_images(mn_browser.registry_url, mn_report.exitcode, found)
          IN  /\ mn_found' = found
              /\ mn_gen' = gen
              /\ mn_report' = [mn_report EXCEPT !.exitcode = gen.exitcode]
              /\ IF gen.yields = <<>>
                 THEN AfterImages(gen.out, <<>>)
                 ELSE UNCHANGED <<mn_pc, mn_exc>>
    /\ UNCHANGED <<mn_options, mn_dir, mn_bound, mn_browser, mn_futures, mn_next,
                   mn_printed, mn_status, mn_peak>>

\* self.submit(fn, image) for the image yielded last, and the next() that
\* follows it; what the external reporter does for the image is fixed from
\* here on.
Submit ==
    /\ MainFrame
    /\ mn_pc = "map"
    /\ mn_found # NoOutcome
    /\ Len(mn_futures) < Len(mn_gen.yields)
    /\ \E reporter \in ReporterOutcomes :
          mn_futures' = Append(mn_futures,
                               [image |-> mn_gen.yields[Len(mn_futures) + 1],
                                state |-> "pending",
                                reporter |-> reporter,
                                calls |-> <<>>,
                                out |-> NoOutcome])
    /\ IF Len(mn_futures') = Len(mn_gen.yields)
       THEN AfterImages(mn_gen.out, mn_futures')
       ELSE UNCHANGED <<mn_pc, mn_exc>>
    /\ UNCHANGED <<mn_options, mn_dir, mn_bound, mn_browser, mn_report, mn_found,
                   mn_gen, mn_next, mn_printed, mn_status, mn_peak>>

\* A worker takes the first work item of the queue that was not cancelled
\* and starts run_report on it; at most max_workers of them run at once.
TaskStart(i) ==
    /\ MainFrame
    /\ i \in Pending
    /\ \A j \in Pending : i <= j
    /\ Cardinality(Running) < mn_options.concurrency
    /\ mn_futures' = [mn_futures EXCEPT ![i].state = "running"]
    /\ mn_peak' = IF Cardinality(Running) + 1 > mn_peak
                  THEN Cardinality(Running) + 1 ELSE mn_peak
    /\ UNCHANGED <<mn_pc, mn_options, mn_dir, mn_bound, mn_browser, mn_report,
                   mn_found, mn_gen, mn_next, mn_exc, mn_printed, mn_status>>

\* run_report(image) ends in its worker: its result or its exception is set
\* on the future.
TaskEnd(i) ==
    /\ MainFrame
    /\ i \in Running
    /\ LET done == run_report(mn_report, mn_futures[i].image, mn_futures[i].reporter)
       IN  /\ mn_report' = done.self
           /\ mn_futures' = [mn_futures EXCEPT ![i].state = "finished",
                                               ![i].calls = done.calls,
                                               ![i].out = done.out]
    /\ UNCHANGED <<mn_pc, mn_options, mn_dir, mn_bound, mn_browser, mn_found,
                   mn_gen, mn_next, mn_exc, mn_printed, mn_status, mn_peak>>

\* The loop of main over executor.map's results takes the next one, in the
\* order of submission; a result that is an exception is raised in main,
\* after every future still pending was cancelled.
Result ==
    /\ MainFrame
    /\ mn_pc = "results"
    /\ mn_next <= Len(mn_futures)
    /\ mn_futures[mn_next].state = "finished"
    /\ mn_next' = mn_next + 1
    /\ IF mn_futures[mn_next].out.kind = "raise"
       THEN /\ mn_futures' = CancelAll(mn_futures)
            /\ mn_exc' = mn_futures[mn_next].out
            /\ mn_pc' = "shutdown"
       ELSE /\ mn_pc' = IF mn_next = Len(mn_futures) THEN "shutdown" ELSE "results"
            /\ UNCHANGED <<mn_futures, mn_exc>>
    /\ UNCHANGED <<mn_options, mn_dir, mn_bound, mn_browser, mn_report, mn_found,
                   mn_gen, mn_printed, mn_status, mn_peak>>

\* Leaving the with block: shutdown(wait=True) returns once the workers have
\* run every work item that was not cancelled.
Shutdown ==
    /\ MainFrame
    /\ mn_pc = "shutdown"
    /\ Running = {}
    /\ Pending = {}
    /\ mn_pc' = IF mn_exc.kind = "raise" THEN "except" ELSE "pprint"
    /\ UNCHANGED <<mn_options, mn_dir, mn_bound, mn_browser, mn_report, mn_found,
                   mn_gen, mn_futures, mn_next, mn_exc, mn_printed, mn_status, mn_peak>>

\* report.pprint()
Pprint ==
    /\ MainFrame
    /\ mn_pc = "pprint"
    /\ mn_printed' = pprint(mn_report)
    /\ mn_pc' = "finally"
    /\ UNCHANGED <<mn_options, mn_dir, mn_bound, mn_browser, mn_report, mn_found,
                   mn_gen, mn_futures, mn_next, mn_exc, mn_status, mn_peak>>

\* except Exception: report.exitcode = 1, which raises in its turn when
\* report was never bound.
Except ==
    /\ MainFrame
    /\ mn_pc = "except"
    /\ IF "report" \in mn_bound
       THEN /\ mn_report' = [mn_report EXCEPT !.exitcode = 1]
            /\ mn_exc' = NoOutcome
       ELSE /\ mn_exc' = Raise("UnboundLocalError", <<"report">>)
            /\ UNCHANGED mn_report
    /\ mn_pc' = "finally"
    /\ UNCHANGED <<mn_options, mn_dir, mn_bound, mn_browser, mn_found, mn_gen,
                   mn_futures, mn_next, mn_printed, mn_status, mn_peak>>

\* finally: shutil.rmtree(tempdir), which raises when tempdir was never
\* bound. An exception that leaves main ends the process with status 1.
Finally ==
    /\ MainFrame
    /\ mn_pc = "finally"
    /\ IF "tempdir" \in mn_bound
       THEN /\ mn_dir' = "removed"
            /\ UNCHANGED mn_exc
       ELSE /\ mn_exc' = Raise("UnboundLocalError", <<"tempdir">>)
            /\ UNCHANGED mn_dir
    /\ IF mn_exc'.kind = "raise"
       THEN /\ mn_pc' = "exit"
            /\ mn_status' = 1
       ELSE /\ mn_pc' = "sysexit"
            /\ UNCHANGED mn_status
    /\ UNCHANGED <<mn_options, mn_bound, mn_browser, mn_report, mn_found, mn_gen,
                   mn_futures, mn_next, mn_printed, mn_peak>>

\* sys.exit(report.exitcode)
SysExit ==
    /\ MainFrame
    /\ mn_pc = "sysexit"
    /\ mn_status' = mn_report.exitcode
    /\ mn_pc' = "exit"
    /\ UNCHANGED <<mn_options, mn_dir, mn_bound, mn_browser, mn_report, mn_found,
                   mn_gen, mn_futures, mn_next, mn_exc, mn_printed, mn_peak>>

MainInit ==
    /\ mn_pc = "start"
    /\ mn_options = <<>>
    /\ mn_dir = "absent"
    /\ mn_bound = {}
    /\ mn_browser = <<>>
    /\ mn_report = <<>>
    /\ mn_found = NoOutcome
    /\ mn_gen = <<>>
    /\ mn_futures = <<>>
    /\ mn_next = 1
    /\ mn_exc = NoOutcome
    /\ mn_printed = NoOutcome
    /\ mn_status = -1
    /\ mn_peak = 0

MainNext ==
    \/ MakeTempdir
    \/ MainSetup
    \/ Discover
    \/ Submit
    \/ \E i \in 1..Len(mn_futures) : TaskStart(i)
    \/ \E i \in 1..Len(mn_futures) : TaskEnd(i)
    \/ Result
    \/ Shutdown
    \/ Pprint
    \/ Except
    \/ Finally
    \/ SysExit

(***************************************************************************)
(* The DockerReport objects that write their report into one directory:    *)
(* one per image reference, as debmonitor.main constructs them.            *)
(***************************************************************************)
\* The repository names and the references a report is made for.
ReportNames ==
    { <<"a">>, <<"a", "b">>, <<"a", "/", "b">>, <<"a", "-", "b">>,
      <<"b", "/", "c">>, <<"b", "-", "c">> }

ReportImages ==
    { _image_full_name(<<"r">>, name, tag) : name \in ReportNames, tag \in {T1, T2} }

\* report = DockerReport(options.image_name, options.report_dir,
\* options.minimum_debian_version)
NewDockerReport ==
    /\ Len(dr_reports) < MaxReports
    /\ ReportFrame
    /\ \E image \in ReportImages :
          dr_reports' = Append(dr_reports, DockerReport(<<image, <<"d">>, 10>>).value)

ReportInit == dr_reports = <<>>

ReportNext == NewDockerReport

(***************************************************************************)
(* One report task from its support check on: the statements of            *)
(* Reporter.run_report that follow the construction, run on a DockerReport *)
(* constructed with its three arguments, with is_supported_image as the    *)
(* support check.                                                          *)
(***************************************************************************)
\* What the docker daemon and the commands do during one task.
DockerEnvs ==
    [pull : {"ok", "fail"},
     create : {"ok", "fail"},
     get_archive : {"ok", "NotFound", "APIError", "no_file"},
     debian_version : {<<9, 13>>, <<10, 0>>, <<11, 2>>},
     generate : {"ok", "fail"},
     submit : {"ok", "fail"},
     rmi : {"ok", "fail"}]

\* Tuples of integers compared as Python compares them.
RECURSIVE TupleGE(_, _)
TupleGE(a, b) ==
    IF b = <<>> THEN TRUE
    ELSE IF a = <<>> THEN FALSE
    ELSE IF Head(a) # Head(b) THEN Head(a) > Head(b)
    ELSE TupleGE(Tail(a), Tail(b))

\* self.is_supported_image(): what it returns or raises, the image store
\* and the container it leaves, and the calls it made to the daemon.
is_supported_image(self, env, docker) ==
    IF env.pull = "fail"
    THEN [out |-> Return(FALSE), docker |-> docker, api |-> <<"pull">>]
    ELSE IF env.create = "fail"
    THEN [out |-> Return(FALSE),
          docker |-> [docker EXCEPT !.pulled = TRUE],
          api |-> <<"pull", "create">>]
    ELSE LET left == [docker EXCEPT !.pulled = TRUE, !.container = "removed"]
             api == <<"pull", "create", "get_archive", "remove">>
         IN  IF env.get_archive = "NotFound"
             THEN [out |-> Return(FALSE), docker |-> left, api |-> api]
             ELSE IF env.get_archive = "APIError"
             THEN [out |-> Raise("APIError", self.image), docker |-> left, api |-> api]
             ELSE IF env.get_archive = "no_file"
             THEN [out |-> Raise("DockerReportError", self.image),
                   docker |-> left, api |-> api]
             ELSE [out |-> Return(TupleGE(env.debian_version, self.minimum_version)),
                   docker |-> left, api |-> api]

\* except DockerReportError of run_report, and any other exception leaving
\* it.
TaskRaised(exc) ==
    /\ IF exc.exc = "DockerReportError"
       THEN /\ tk_self' = [tk_self EXCEPT !._failed = Append(@, tk_debmonitor.image),
                                          !.exitcode = 3]
            /\ tk_out' = Return(None)
       ELSE /\ tk_out' = exc
            /\ UNCHANGED tk_self
    /\ tk_pc' = "done"

\* run_report(image) is called on a Reporter, and has its DockerReport.
RunReport ==
    /\ tk_pc = "idle"
    /\ TaskFrame
    /\ \E keep \in BOOLEAN, env \in DockerEnvs :
          /\ tk_self' = Reporter(<<"d">>, keep)
          /\ tk_debmonitor' = DockerReport(<<ImgA, <<"d">>, 10>>).value
          /\ tk_env' = env
    /\ tk_pc' = "check"
    /\ UNCHANGED <<tk_docker, tk_calls, tk_out>>

\* The support check, and the return when the image is not supported.
SupportCheck ==
    /\ tk_pc = "check"
    /\ TaskFrame
    /\ LET done == is_supported_image(tk_debmonitor, tk_env, tk_docker)
       IN  /\ tk_docker' = [done.docker EXCEPT !.api = @ \o done.api]
           /\ tk_calls' = Append(tk_calls, "is_supported_image")
           /\ IF done.out.kind = "raise" THEN TaskRaised(done.out)
              ELSE IF ~done.out.value
              THEN /\ tk_out' = Return(None)
                   /\ tk_pc' = "done"
                   /\ UNCHANGED tk_self
              ELSE /\ tk_pc' = "generate"
                   /\ UNCHANGED <<tk_self, tk_out>>
    /\ UNCHANGED <<tk_debmonitor, tk_env>>

\* debmonitor.generate_report()
GenerateReport ==
    /\ tk_pc = "generate"
    /\ TaskFrame
    /\ tk_calls' = Append(tk_calls, "generate_report")
    /\ IF tk_env.generate = "fail"
       THEN TaskRaised(Raise("DockerReportError", <<"Report generation">>))
       ELSE /\ tk_pc' = "submit"
            /\ UNCHANGED <<tk_self, tk_out>>
    /\ UNCHANGED <<tk_debmonitor, tk_env, tk_docker>>

\* debmonitor.submit_report(); when images are kept,
\* self._success.append(image) and the return.
SubmitReport ==
    /\ tk_pc = "submit"
    /\ TaskFrame
    /\ tk_calls' = Append(tk_calls, "submit_report")
    /\ IF tk_env.submit = "fail"
       THEN TaskRaised(Raise("DockerReportError", <<"Submit report">>))
       ELSE IF tk_self._prune_images
       THEN /\ tk_pc' = "prune"
            /\ UNCHANGED <<tk_self, tk_out>>
       ELSE /\ tk_self' = [tk_self EXCEPT !._success = Append(@, tk_debmonitor.image)]
            /\ tk_out' = Return(None)
            /\ tk_pc' = "done"
    /\ UNCHANGED <<tk_debmonitor, tk_env, tk_docker>>

\* debmonitor.prune_image(), self._success.append(image) and the return.
PruneImage ==
    /\ tk_pc = "prune"
    /\ TaskFrame
    /\ tk_calls' = Append(tk_calls, "prune_image")
    /\ IF tk_env.rmi = "fail"
       THEN /\ TaskRaised(Raise("DockerReportError", <<"Image pruning">>))
            /\ UNCHANGED tk_docker
       ELSE /\ tk_docker' = [tk_docker EXCEPT !.pulled = FALSE]
            /\ tk_self' = [tk_self EXCEPT !._success = Append(@, tk_debmonitor.image)]
            /\ tk_out' = Return(None)
            /\ tk_pc' = "done"
    /\ UNCHANGED <<tk_debmonitor, tk_env>>

TaskInit ==
    /\ tk_pc = "idle"
    /\ tk_self = <<>>
    /\ tk_debmonitor = <<>>
    /\ tk_env = <<>>
    /\ tk_docker = [pulled |-> FALSE, container |-> "none", api |-> <<>>]
    /\ tk_calls = <<>>
    /\ tk_out = NoOutcome

TaskNext ==
    \/ RunReport
    \/ SupportCheck
    \/ GenerateReport
    \/ SubmitReport
    \/ PruneImage

(***************************************************************************)
(* RegistryOperations.delete_image and registryctl.delete_tags.            *)
(*                                                                         *)
(* fnmatch.filter keeps the names fnmatchcase matches.                     *)
(***************************************************************************)
\* fnmatch.filter(names, pat), where os.path.normcase changes nothing.
FnmatchFilter(names, pat) == SelectSeq(names, LAMBDA name : fnmatchcase(name, pat))

\* "/v2/{}/manifests/{}".format(name, reference)
ManifestUrl(name, reference) ==
    V2 \o name \o <<"/", "m", "a", "n", "i", "f", "e", "s", "t", "s", "/">> \o reference

\* The digest the registry gives for a tag.
DigestOf(tag) == <<"s", ":">> \o tag

\* What the registry does with the two requests of one tag's deletion.
TagFates == {"deleted", "digest_404", "delete_401", "transport"}

\* The step of delete_image for one tag whose requests the registry answers
\* as fate says ("transport": the first request gets no response at all):
\* the requests made, and the list the tag is appended to, if any.
DeleteOne(name, tag, fate) ==
    LET get == [method |-> "GET", path |-> ManifestUrl(name, tag)]
        delete == [method |-> "DELETE", path |-> ManifestUrl(name, DigestOf(tag))]
    IN  IF fate = "deleted" THEN [requests |-> <<get, delete>>, list |-> "none"]
        ELSE IF fate = "digest_404" THEN [requests |-> <<get>>, list |-> "not_found"]
        ELSE IF fate = "delete_401" THEN [requests |-> <<get, delete>>, list |-> "failed"]
        ELSE [requests |-> <<get>>, list |-> "failed"]

\* The loop of delete_image over the selected tags still to visit.
RECURSIVE DeleteLoop(_, _, _, _)
DeleteLoop(name, selected, fates, acc) ==
    IF selected = <<>> THEN acc
    ELSE LET tag == Head(selected)
             one == DeleteOne(name, tag, fates[tag])
         IN  DeleteLoop(name, Tail(selected), fates,
                        [failed |-> IF one.list = "failed"
                                    THEN Append(acc.failed, tag) ELSE acc.failed,
                         not_found |-> IF one.list = "not_found"
                                       THEN Append(acc.not_found, tag)
                                       ELSE acc.not_found,
                         requests |-> acc.requests \o one.requests])

\* The request get_tags_for_image(name) makes.
ListingRequest(name) == [method |-> "GET", path |-> TagsListPath(name)]

\* delete_image(name, tag_glob), with listed what get_tags_for_image(name)
\* does: what it returns or raises, and the requests it made.
delete_image(name, tag_glob, listed, fates) ==
    IF listed.kind = "raise"
    THEN [out |-> listed, requests |-> <<ListingRequest(name)>>]
    ELSE LET selected_tags == FnmatchFilter(listed.value, tag_glob)
             loop == DeleteLoop(name, selected_tags, fates,
                                [failed |-> <<>>, not_found |-> <<>>,
                                 requests |-> <<ListingRequest(name)>>])
         IN  [out |-> Return(<<selected_tags, loop.failed, loop.not_found>>),
              requests |-> loop.requests]

\* str.lower(), were it to leave every letter as it is.
SameCase(s) == s

\* str.lower(), on the letters the answers hold.
Lower(s) ==
    [i \in 1..Len(s) |-> IF s[i] = "Y" THEN "y"
                         ELSE IF s[i] = "N" THEN "n"
                         ELSE s[i]]

\* The line delete_tags prints for a tag: the tag and DONE or FAIL.
ResultLine(tag, failed) ==
    [tag |-> tag,
     res |-> IF tag \in {failed[i] : i \in 1..Len(failed)} THEN "FAIL" ELSE "DONE"]

\* delete_tags from the call of delete_image on: what delete_image did, the
\* requests it made, the lines printed, and what delete_tags returns or
\* raises.
DeleteSelected(name, filterglob, force, listed, fates) ==
    LET done == delete_image(name, filterglob, listed, fates)
        pair == Bind(done.out, LAMBDA result : Unpack2(result))
    IN  IF pair.kind = "raise"
        THEN [deleted |-> done.out, requests |-> done.requests,
              printed |-> <<>>, ret |-> pair]
        ELSE LET selected == pair.value[1]
                 failed == pair.value[2]
             IN  [deleted |-> done.out, requests |-> done.requests,
                  printed |-> [i \in 1..Len(selected) |-> ResultLine(selected[i], failed)],
                  ret |-> IF failed # <<>> /\ ~force
                          THEN Raise("RegistryError", failed)
                          ELSE Return(None)]

(***************************************************************************)
(* The calls of delete_tags and what the registry and the user answer.     *)
(***************************************************************************)
TagA == <<"a">>
TagB == <<"b">>
TagAtest == <<"a", "t", "e", "s", "t">>
TagLatest == <<"l", "a", "t", "e", "s", "t">>

\* The tags of the image.
ListedTags == <<TagA, TagB, TagAtest, TagLatest>>

\* The globs delete_tags is called with.
Globs ==
    { <<"l", "*">>, <<"*", "t", "e", "s", "t">>, <<"0", ".", "*">>, <<"*">>,
      <<"?">>, <<"[", "!", "a", "]", "*">>, TagLatest }

DeleteArgs == [name : {ImgA}, filterglob : Globs, force : BOOLEAN]

\* What get_tags_for_image(name) does when delete_tags calls it.
DeleteListings(name) ==
    { Return(ListedTags), Return(<<TagAtest, TagLatest>>), Return(<<TagLatest>>),
      Return(<<>>), Raise("RegistryError", TagsListPath(name)) }

\* What happens to each tag's deletion; the two short tags meet fewer fates.
DeleteFates ==
    { fates \in [{ListedTags[i] : i \in 1..Len(ListedTags)} -> TagFates] :
        \A tag \in {TagA, TagB} : fates[tag] \in {"deleted", "delete_401"} }

\* The registries a call of delete_tags can meet: what the listing does for
\* delete_tags and then for delete_image, and what happens to each tag's
\* deletion.
DeleteRegistries(name) ==
    { r \in [tags : DeleteListings(name),
             later : DeleteListings(name),
             fates : DeleteFates] :
        \/ r.later = r.tags
        \/ r.later.kind = "raise"
        \/ r.later = Return(ListedTags) }

\* What the user types at the prompt.
Answers == { <<"y">>, <<"Y">>, <<"n">>, <<>>, <<"y", "e", "s">> }

\* delete_tags goes on from the call of delete_image to its end, having made
\* the requests before.
DeleteToEnd(args, registry, before) ==
    LET d == DeleteSelected(args.name, args.filterglob, args.force,
                            registry.later, registry.fates)
    IN  /\ dl_deleted' = d.deleted
        /\ dl_requests' = before \o d.requests
        /\ dl_printed' = d.printed
        /\ dl_ret' = d.ret
        /\ dl_pc' = "done"

\* delete_tags(registry_name, name, filterglob, force), up to its end or to
\* the prompt.
DeleteTags ==
    /\ DeleteFrame
    /\ dl_pc = "idle"
    /\ \E args \in DeleteArgs :
       \E registry \in DeleteRegistries(args.name) :
          /\ dl_args' = args
          /\ dl_registry' = registry
          /\ UNCHANGED dl_answer
          /\ IF args.force
             THEN /\ DeleteToEnd(args, registry, <<>>)
                  /\ UNCHANGED dl_shown
             ELSE IF registry.tags.kind = "raise"
             THEN /\ dl_requests' = <<ListingRequest(args.name)>>
                  /\ dl_ret' = registry.tags
                  /\ dl_pc' = "done"
                  /\ UNCHANGED <<dl_shown, dl_deleted, dl_printed>>
             ELSE LET to_remove == FnmatchFilter(registry.tags.value, args.filterglob)
                  IN  IF Len(to_remove) > 1
                      THEN /\ dl_shown' = Return(to_remove)
                           /\ dl_requests' = <<ListingRequest(args.name)>>
                           /\ dl_pc' = "prompt"
                           /\ UNCHANGED <<dl_deleted, dl_printed, dl_ret>>
                      ELSE /\ DeleteToEnd(args, registry, <<ListingRequest(args.name)>>)
                           /\ UNCHANGED dl_shown

\* input("Ok to proceed? (y/n)") returns resp, and delete_tags runs to its
\* end.
Answer(resp) ==
    /\ DeleteFrame
    /\ dl_pc = "prompt"
    /\ dl_answer' = Return(resp)
    /\ IF Lower(resp) # <<"y">>
       THEN /\ dl_printed' = <<[tag |-> <<>>, res |-> "Aborting."]>>
            /\ dl_ret' = Return(None)
            /\ dl_pc' = "done"
            /\ UNCHANGED <<dl_deleted, dl_requests>>
       ELSE DeleteToEnd(dl_args, dl_registry, dl_requests)
    /\ UNCHANGED <<dl_args, dl_registry, dl_shown>>

DeleteInit ==
    /\ dl_pc = "idle"
    /\ dl_args = <<>>
    /\ dl_registry = <<>>
    /\ dl_requests = <<>>
    /\ dl_shown = NoOutcome
    /\ dl_answer = NoOutcome
    /\ dl_deleted = NoOutcome
    /\ dl_printed = <<>>
    /\ dl_ret = NoOutcome

DeleteNext ==
    \/ DeleteTags
    \/ \E resp \in Answers : Answer(resp)

(***************************************************************************)
(* Specifications: one per component, the others at rest.                  *)
(***************************************************************************)
Init ==
    /\ PagesInit /\ RulesInit /\ SortInit /\ BrowseInit /\ MainInit /\ DeleteInit
    /\ ReportInit
    /\ TaskInit

SpecPages == Init /\ [][PagesNext]_vars

SpecRules == Init /\ [][RulesNext]_vars

SpecSort == Init /\ [][SortNext]_vars

SpecBrowse == Init /\ [][BrowseNext]_vars

SpecProcess == Init /\ [][ProcessNext]_vars

SpecMain == Init /\ [][MainNext]_vars

SpecDelete == Init /\ [][DeleteNext]_vars

SpecReport == Init /\ [][ReportNext]_vars

SpecTask == Init /\ [][TaskNext]_vars

(***************************************************************************)
(* Claims about the paged client.                                          *)
(***************************************************************************)
LastExchange == pg_log[Len(pg_log)]

AllPagesOk == \A k \in 1..Len(pg_log) : pg_log[k].reply.kind = "ok"

\* The last request was answered with HTTP status code.
LastStatusIs(code) ==
    /\ pg_log # <<>>
    /\ LastExchange.reply.kind = "http_error"
    /\ LastExchange.reply.status_code = code

\* The last request failed, with an HTTP error status or in the transport.
LastFailed ==
    /\ pg_log # <<>>
    /\ LastExchange.reply.kind \in {"http_error", "transport_error"}

\* C1: over a chain of n pages linked by next links, _get_all_pages makes
\* exactly n requests, request k+1 at the path of page k's next link, stops at
\* the first page without a next link and returns the n payloads in page
\* order, each payload as the registry sent it.
C1_PagesInOrder ==
    LET n == Len(pg_log) IN
    /\ (pg_pc = "request" /\ AllPagesOk) =>
          /\ Len(responses) = n
          /\ \A k \in 1..n : \E l \in pg_log[k].reply.links : l.rel = "next"
    /\ (pg_pc = "done" /\ AllPagesOk) =>
          /\ n >= 1
          /\ pg_out.kind = "return"
          /\ Len(pg_out.value) = n
          /\ \A k \in 1..n : pg_out.value[k] = pg_log[k].reply.json
          /\ \A k \in 1..(n - 1) :
                \E l \in pg_log[k].reply.links :
                    l.rel = "next" /\ pg_log[k + 1].path = l.url
          /\ \A l \in pg_log[n].reply.links : l.rel # "next"

\* C1 witness: a chain of three pages was fetched to its end.
C1_Witness ==
    /\ pg_pc = "done"
    /\ AllPagesOk
    /\ Len(pg_log) = 3
    /\ pg_out.kind = "return"
    /\ pg_log[2].path # pg_log[3].path

\* C2 as stated: a 404 on the tag listing, on the first page or on a page
\* reached through a next link, makes get_tags_for_image return no tags
\* without raising.
C2_Any404GivesNoTags ==
    (pg_caller = "get_tags_for_image" /\ pg_pc = "done" /\ LastStatusIs(404))
        => tags_out = Return(<<>>)

\* C2 amended: a 404 on the first page of the tag listing makes
\* get_tags_for_image return no tags without raising. A 404 on a page reached
\* through a next link raises RegistryError with that path, unless the path
\* itself ends in /tags/list, and then the tags of the pages already fetched
\* are returned.
C2_First404GivesNoTags ==
    (pg_caller = "get_tags_for_image" /\ pg_pc = "done" /\ LastStatusIs(404)) =>
        LET n == Len(pg_log)
            fetched == [k \in 1..(n - 1) |-> pg_log[k].reply.json]
        IN  IF n = 1 THEN tags_out = Return(<<>>)
            ELSE IF EndsWith(LastExchange.path, TagsListSuffix)
                 THEN tags_out = Return(ExtendTags(fetched))
                 ELSE tags_out = Raise("RegistryError", LastExchange.path)

\* C2 witness: the first page of a tag listing answered 404 and
\* get_tags_for_image returned no tags.
C2_Witness ==
    /\ pg_caller = "get_tags_for_image"
    /\ pg_pc = "done"
    /\ Len(pg_log) = 1
    /\ LastStatusIs(404)
    /\ tags_out = Return(<<>>)

\* C3: a transport failure, or an HTTP error status that is not a 404 on a
\* path ending in /tags/list (so also a 404 on the catalog or on a manifest),
\* on any page, raises RegistryError with the path of the failed request;
\* nothing is returned, whatever was fetched before.
C3_ErrorsRaiseWithPath ==
    (pg_pc = "done" /\ LastFailed
        /\ ~(LastStatusIs(404) /\ EndsWith(LastExchange.path, TagsListSuffix))) =>
        /\ pg_out = Raise("RegistryError", LastExchange.path)
        /\ pg_caller = "get_tags_for_image" => tags_out = pg_out

\* C3 witness: the second page of the catalog answered 404 after a first
\* page was fetched, and RegistryError was raised.
C3_Witness ==
    /\ pg_pc = "done"
    /\ Len(pg_log) = 2
    /\ pg_log[1].path = CatalogPath
    /\ LastStatusIs(404)
    /\ responses # <<>>
    /\ pg_out.kind = "raise"

(***************************************************************************)
(* Claims about the filter rules.                                          *)
(***************************************************************************)
\* sub occurs in x, character by character.
HasSubstring(sub, x) ==
    \E i \in 0..(Len(x) - Len(sub)) : \A k \in 1..Len(sub) : x[i + k] = sub[k]

\* The pattern is found somewhere in x: from some start, every element of
\* the pattern holds at the position the elements before it lead to ("^" and
\* "$" take no character, "." takes any one, a literal takes itself).
FindsRegex(pattern, x) ==
    \E start \in 1..(Len(x) + 1) :
        \A k \in 1..Len(pattern) :
            LET pos == start
                       + Cardinality({m \in 1..(k - 1) : pattern[m] \notin {"^", "$"}})
            IN  CASE pattern[k] = "^" -> pos = 1
                  [] pattern[k] = "$" -> pos = Len(x) + 1
                  [] pattern[k] = "." -> pos <= Len(x)
                  [] OTHER -> pos <= Len(x) /\ x[pos] = pattern[k]

\* The pattern test a rule string stands for: regex: is a search anywhere in
\* x, contains: a literal substring test.
PatternHolds(rule, x) ==
    IF StartsWith(rule, RegexPrefix)
    THEN FindsRegex(SubSeq(rule, Len(RegexPrefix) + 1, Len(rule)), x)
    ELSE HasSubstring(SubSeq(rule, Len(ContainsPrefix) + 1, Len(rule)), x)

IsExclude(rules) == "action" \in DOMAIN rules /\ rules["action"] = Exclude

\* The section read last added a filter to the tag list, to the image list.
LastAddedTag == ff_last.n > 0 /\ Len(tag_filters) = ff_last.n_tag + 1
LastAddedImage == ff_last.n > 0 /\ Len(image_filters) = ff_last.n_img + 1

\* C4: the tag rule _tag builds from a section accepts every (image, tag)
\* whose image does not satisfy name_match (no name_match: the rule applies to
\* every image); where it applies it answers tag_pattern(tag) when action is
\* include or absent, and the negation when action is exclude.
C4_TagRuleVotes ==
    /\ LastAddedTag => tag_filters[Len(tag_filters)].rules = ff_last.rules
    /\ pr_data # <<>> =>
          \A i \in 1..Len(tag_filters) :
              LET rules == tag_filters[i].rules
                  applies == \/ "name_match" \notin DOMAIN rules
                             \/ PatternHolds(rules["name_match"], pr_data[1])
                  matches == PatternHolds(rules["tag"], pr_data[2])
              IN  tag_votes[i] = IF ~applies THEN TRUE
                                 ELSE IF IsExclude(rules) THEN ~matches
                                 ELSE matches

\* C4 witness: an include rule with a name_match was called on a tag its
\* pattern rejects, once for an image out of its scope (accepted) and the
\* rule is in the list next to an exclude rule that rejected the pair.
C4_Witness ==
    /\ pr_data # <<>>
    /\ Len(tag_filters) = 2
    /\ "name_match" \in DOMAIN tag_filters[1].rules
    /\ ~IsExclude(tag_filters[1].rules)
    /\ ~PatternHolds(tag_filters[1].rules["name_match"], pr_data[1])
    /\ ~PatternHolds(tag_filters[1].rules["tag"], pr_data[2])
    /\ tag_votes[1] = TRUE
    /\ IsExclude(tag_filters[2].rules)
    /\ tag_votes[2] = FALSE

\* C5: the image rule built from a section with a name and no tag answers,
\* for every image name, the pattern test when action is include or absent
\* and its negation when action is exclude; regex: is a search anywhere in
\* the name and contains: a literal substring test.
C5_ImageRuleVotes ==
    (pr_data # <<>> /\ LastAddedImage) =>
        LET rules == ff_last.rules
            matches == PatternHolds(rules["name"], pr_data[1])
        IN  /\ "tag" \notin DOMAIN rules
            /\ img_votes[Len(image_filters)] =
                  IF IsExclude(rules) THEN ~matches ELSE matches

\* C5 witness: an include rule regex:b$ accepted the name "ab", where the
\* match is not at the start of the name.
C5_Witness ==
    /\ pr_data # <<>>
    /\ LastAddedImage
    /\ ~IsExclude(ff_last.rules)
    /\ ff_last.rules["name"] = RegexPrefix \o <<"b", "$">>
    /\ pr_data[1] = <<"a", "b">>
    /\ img_votes[Len(image_filters)] = TRUE

ValidSyntax(rule) == StartsWith(rule, RegexPrefix) \/ StartsWith(rule, ContainsPrefix)

\* C7 as stated: a section with neither name nor tag adds no predicate; a
\* section in which name, tag or name_match starts with neither regex: nor
\* contains: adds none; every other section adds exactly one, to the tag list
\* if it has a tag and to the image list otherwise.
C7_OnePredicatePerValidSection ==
    ff_last.n > 0 =>
        LET rules == ff_last.rules
            added_img == Len(image_filters) - ff_last.n_img
            added_tag == Len(tag_filters) - ff_last.n_tag
            no_condition == "name" \notin DOMAIN rules /\ "tag" \notin DOMAIN rules
            bad_syntax == \E key \in {"name", "tag", "name_match"} \cap DOMAIN rules :
                              ~ValidSyntax(rules[key])
        IN  IF no_condition \/ bad_syntax
            THEN added_img = 0 /\ added_tag = 0
            ELSE IF "tag" \in DOMAIN rules
                 THEN added_img = 0 /\ added_tag = 1
                 ELSE added_img = 1 /\ added_tag = 0

\* C8 as stated: _filters_from_file never raises, whatever the sections
\* hold, a regex: pattern that is no regular expression included.
C8_ParseErrorsNeverPropagate == ff_out.kind # "raise"

(***************************************************************************)
(* Claims about the tag sorter.                                            *)
(***************************************************************************)
AllGood == \A tag \in DOMAIN st_made : st_made[tag].kind = "good"

\* Timestamp a is not after timestamp b: they are equal, or a is smaller in
\* the first field where they differ.
NotAfter(a, b) ==
    \/ a = b
    \/ \E k \in 1..6 : a[k] < b[k] /\ \A m \in 1..(k - 1) : a[m] = b[m]

\* C9: when every tag's manifest gives a well-formed creation timestamp in
\* its first history element, sort_tags returns a permutation of the tags in
\* which no tag comes before one with an earlier timestamp (oldest first).
C9_SortedOldestFirst ==
    (st_pc = "done" /\ AllGood) =>
        /\ st_out.kind = "return"
        /\ Len(st_out.value) = Len(st_tags)
        /\ {st_out.value[i] : i \in 1..Len(st_out.value)}
              = {st_tags[i] : i \in 1..Len(st_tags)}
        /\ \A i, j \in 1..Len(st_out.value) :
              i < j => NotAfter(st_made[st_out.value[i]].ts, st_made[st_out.value[j]].ts)

\* C9 witness: two tags, the first dated 2018-05-15 and the second
\* 2018-04-15, were sorted into the second, then the first.
C9_Witness ==
    /\ st_pc = "done"
    /\ Len(st_tags) = 2
    /\ AllGood
    /\ st_made[st_tags[1]].ts = May15
    /\ st_made[st_tags[2]].ts = Apr15
    /\ st_out = Return(<<st_tags[2], st_tags[1]>>)

\* The malformed manifests the claim lists.
ListedFaults ==
    {"no_history", "empty_history", "no_compat", "bad_json", "no_created",
     "created_not_str", "no_dot", "two_dots", "bad_date"}

\* C10 as stated: if some tag's manifest has no history, an empty history, no
\* compatibility document, unparsable JSON, or a missing or malformed created
\* field, and every manifest was fetched, sort_tags raises
\* RegistryBrowserError naming the image.
C10_MalformedRaisesSortError ==
    (/\ st_pc = "done"
     /\ \E tag \in DOMAIN st_made : st_made[tag].kind \in ListedFaults
     /\ \A tag \in DOMAIN st_made : st_made[tag].kind # "fetch_fails")
        => st_out = Raise("RegistryBrowserError", CouldNotSort(st_image))

(***************************************************************************)
(* Claims about the browser's filters.                                     *)
(***************************************************************************)
Elements(s) == {s[i] : i \in 1..Len(s)}

\* get_image_tags ran and the catalog was read.
Browsed == br_pc = "done" /\ br_images.kind = "return"

\* Every image name the catalog's pages hold.
CatalogImages ==
    UNION { Elements(GetRepositories(br_registry.catalog.value[k])) :
              k \in 1..Len(br_registry.catalog.value) }

\* The tags the result holds for an image.
KeptTags(image) ==
    IF image \in DOMAIN br_out.value.val THEN Elements(br_out.value.val[image])
    ELSE {}

EveryNameFilterAccepts(image) ==
    \A fn \in Elements(cls_name_filters) : CallNameFilter(fn, image)

EveryTagFilterAccepts(image, tag) ==
    \A fn \in Elements(cls_tag_filters) : CallTagFilter(fn, <<image, tag>>)

\* The list with the filters at i and j exchanged, the list without the
\* filter at i, and the list with fn put in at i.
Exchanged(filters, i, j) == [filters EXCEPT ![i] = filters[j], ![j] = filters[i]]
Without(filters, i) == SubSeq(filters, 1, i - 1) \o SubSeq(filters, i + 1, Len(filters))
PutIn(filters, i, fn) == SubSeq(filters, 1, i - 1) \o <<fn>> \o SubSeq(filters, i, Len(filters))
Reversed(filters) == [i \in 1..Len(filters) |-> filters[Len(filters) + 1 - i]]

\* The reorderings of a list that are compared: the reversal, and every
\* exchange of two neighbours (any order is reached by such exchanges).
Reorderings(filters) ==
    {Reversed(filters)}
       \cup { Exchanged(filters, i, i + 1) : i \in 1..(Len(filters) - 1) }

\* Filters that accept everything the registry holds, and filters that
\* reject all of it.
TrueNameFilter == [kind |-> "exclude_namespaces", namespaces |-> <<<<"z">>>>]
TrueTagFilter == [kind |-> "exclude_tag_regexp", regexes |-> <<<<"z">>>>]
FalseNameFilter == [kind |-> "exclude_namespaces", namespaces |-> <<<<>>>>]
FalseTagFilter == [kind |-> "exclude_tag_regexp", regexes |-> <<<<>>>>]

AcceptsAllNames(fn) == \A image \in BrowseImages : CallNameFilter(fn, image)
AcceptsAllTags(fn) ==
    \A image \in BrowseImages, tag \in BrowseTags : CallTagFilter(fn, <<image, tag>>)

\* What get_image_tags gives with other filter lists, all else the same.
ResultWith(name_filters, filters) ==
    get_image_tags(name_filters, filters, br_sort, br_registry)

\* C6: an image name of the catalog is kept iff every name filter accepts
\* it, and a tag listed for a kept image is kept iff every tag filter accepts
\* the (image, tag) pair; with an empty filter list everything is kept; the
\* result is the same with the filters in another order, and with a filter
\* that accepts everything taken out, or put first or last; with a filter
\* that rejects everything put first or last, nothing is kept.
C6_KeptIffEveryFilterAccepts ==
    Browsed =>
      /\ \A image \in CatalogImages :
            image \in Elements(br_images.value) <=> EveryNameFilterAccepts(image)
      /\ cls_name_filters = <<>> => Elements(br_images.value) = CatalogImages
      /\ br_out.kind = "return" =>
            \A image \in Elements(br_images.value) :
               \A tag \in Elements(br_registry.tags[image].value) :
                  /\ tag \in KeptTags(image) <=> EveryTagFilterAccepts(image, tag)
                  /\ cls_tag_filters = <<>> => tag \in KeptTags(image)
      /\ \A names \in Reorderings(cls_name_filters) :
            ResultWith(names, cls_tag_filters) = br_out
      /\ \A filters \in Reorderings(cls_tag_filters) :
            ResultWith(cls_name_filters, filters) = br_out
      /\ \A i \in 1..Len(cls_name_filters) :
            AcceptsAllNames(cls_name_filters[i]) =>
               ResultWith(Without(cls_name_filters, i), cls_tag_filters) = br_out
      /\ \A i \in 1..Len(cls_tag_filters) :
            AcceptsAllTags(cls_tag_filters[i]) =>
               ResultWith(cls_name_filters, Without(cls_tag_filters, i)) = br_out
      /\ \A i \in {1, Len(cls_name_filters) + 1} :
            /\ ResultWith(PutIn(cls_name_filters, i, TrueNameFilter),
                          cls_tag_filters) = br_out
            /\ ResultWith(PutIn(cls_name_filters, i, FalseNameFilter),
                          cls_tag_filters) = Return(EmptyDict)
      /\ \A i \in {1, Len(cls_tag_filters) + 1} :
            /\ ResultWith(cls_name_filters,
                          PutIn(cls_tag_filters, i, TrueTagFilter)) = br_out
            /\ br_out.kind = "return" =>
                  ResultWith(cls_name_filters,
                             PutIn(cls_tag_filters, i, FalseTagFilter))
                     = Return(EmptyDict)

\* Two name filters and three tag filters are installed; one image of the
\* catalog is kept and one is not; of the kept image's tags one is kept, one
\* is rejected by a filter the others accept it by.
C6_Witness ==
    /\ Browsed
    /\ br_out.kind = "return"
    /\ Len(cls_name_filters) = 2
    /\ Len(cls_tag_filters) = 3
    /\ \E kept, dropped \in CatalogImages :
          /\ kept \in Elements(br_images.value)
          /\ dropped \notin Elements(br_images.value)
          /\ \E fn \in Elements(cls_name_filters) : CallNameFilter(fn, dropped)
          /\ \E tag \in Elements(br_registry.tags[kept].value) : tag \in KeptTags(kept)
          /\ \E tag \in Elements(br_registry.tags[kept].value) :
                /\ tag \notin KeptTags(kept)
                /\ \E fn \in Elements(cls_tag_filters) : CallTagFilter(fn, <<kept, tag>>)

(***************************************************************************)
(* Claims about main: discovery, the report tasks, the exit status and     *)
(* the scratch directory.                                                  *)
(***************************************************************************)
\* Discovery returned a mapping.
Discovered == mn_found.kind = "return"

\* main is past executor.map's submissions.
AllSubmitted == mn_pc \notin {"start", "setup", "map"}

\* The reference of the i-th image of the mapping: the registry host, "/",
\* the image name, ":" and the tag its sorted list ends with.
ReferenceOf(i) ==
    LET name == mn_found.value.keys[i]
        tags == mn_found.value.val[name]
    IN  mn_browser.registry_url \o <<"/">> \o name \o <<":">> \o tags[Len(tags)]

\* C11: for a mapping returned by get_image_tags(sort=True), get_images
\* yields one reference per image of the mapping, in the mapping's order,
\* each of the form registry_url/image:tag with the last tag of the image's
\* sorted list; these are the references submitted, no image twice.
C11_OneReferencePerImage ==
    Discovered =>
        /\ Len(mn_gen.yields) = Len(mn_found.value.keys)
        /\ \A i \in 1..Len(mn_gen.yields) : mn_gen.yields[i] = ReferenceOf(i)
        /\ \A i, j \in 1..Len(mn_found.value.keys) :
              i # j => mn_found.value.keys[i] # mn_found.value.keys[j]
        /\ Len(mn_futures) <= Len(mn_gen.yields)
        /\ \A i \in 1..Len(mn_futures) : mn_futures[i].image = mn_gen.yields[i]
        /\ AllSubmitted => Len(mn_futures) = Len(mn_gen.yields)

\* C11 witness: three images were found, the first with the tags 2 and 1 in
\* date order though the registry lists 1 first, and r/a:1, r/ab:... and
\* r/b/c:... were submitted.
C11_Witness ==
    /\ Discovered
    /\ AllSubmitted
    /\ mn_found.value.keys = <<ImgA, ImgAB, ImgB>>
    /\ mn_found.value.val[ImgA] = <<T2, T1>>
    /\ Len(mn_futures) = 3
    /\ mn_futures[1].image = <<"r", "/", "a", ":", "1">>
    /\ mn_futures[3].image = <<"r", "/", "b", "/", "c", ":", "1">>

\* main has ended.
Exited == mn_pc = "exit"

Dispatched == 1..Len(mn_futures)

\* C12 as stated: if the report of an image fails with the report error, the
\* image is in the failed list and the exit status is 3 once all tasks have
\* ended, and every other task submitted before or after it has run: none
\* was prevented or cancelled.
C12_ReportErrorRecorded ==
    (/\ Exited
     /\ \E i \in Dispatched : mn_futures[i].reporter = "report_error")
        => /\ \A i \in Dispatched :
                 mn_futures[i].reporter = "report_error"
                    => mn_futures[i].image \in Elements(mn_report._failed)
           /\ mn_status = 3
           /\ \A i \in Dispatched : mn_futures[i].state = "finished"

\* C13: nothing is submitted before get_image_tags(sort=True) has returned
\* the whole mapping; when it raises RegistryError, or the sort error for
\* any image, no task is ever submitted and main exits with status 2.
C13_DiscoveryFirst ==
    /\ mn_futures # <<>> => Discovered
    /\ (mn_found.kind = "raise" /\ mn_found.exc \in {"RegistryError", "RegistryBrowserError"})
          => /\ mn_futures = <<>>
             /\ mn_peak = 0
             /\ Exited => mn_status = 2

\* C13 witness: the catalog and the tags were listed, sorting the tags of
\* b/c raised the sort error, and main has exited.
C13_Witness ==
    /\ Exited
    /\ mn_found = Raise("RegistryBrowserError", CouldNotSort(ImgB))
    /\ mn_futures = <<>>
    /\ mn_status = 2

\* C14: when discovery raises an exception that is neither RegistryError nor
\* the sort error, no task is submitted and main exits with status 1, which
\* is none of 0, 2 and 3.
C14_UnexpectedDiscoveryError ==
    (mn_found.kind = "raise" /\ mn_found.exc \notin {"RegistryError", "RegistryBrowserError"})
        => /\ mn_futures = <<>>
           /\ mn_peak = 0
           /\ mn_printed = NoOutcome
           /\ Exited => mn_status = 1 /\ mn_status \notin {0, 2, 3}

\* C14 witness: sorting met a created field without a fraction, which
\* raised ValueError, and main has exited.
C14_Witness ==
    /\ Exited
    /\ mn_found.kind = "raise"
    /\ mn_found.exc = "ValueError"
    /\ mn_status = 1

\* The tasks run one after the other in the order of submission, each to
\* its end before the next starts, up to the first that raises: the
\* Reporter this leaves and the exit status of main.
RECURSIVE InOrder(_, _)
InOrder(self, futures) ==
    IF futures = <<>> THEN [self |-> self, status |-> self.exitcode]
    ELSE LET done == run_report(self, Head(futures).image, Head(futures).reporter)
         IN  IF done.out.kind = "raise" THEN [self |-> done.self, status |-> 1]
             ELSE InOrder(done.self, Tail(futures))

C16_SummaryCoversEveryReference ==
    /\ mn_printed # NoOutcome
          => /\ \A i \in Dispatched : mn_futures[i].state = "finished"
             /\ mn_printed.ok = mn_report._success
             /\ mn_printed.fail = mn_report._failed
    /\ (Exited /\ Discovered)
          => \A i \in Dispatched :
                (mn_futures[i].image \in Elements(mn_report._success))
                   # (mn_futures[i].image \in Elements(mn_report._failed))

DeleteReturned == dl_deleted.kind = "return"

\* The tags delete_image selected, and those its own listing gave.
SelectedTagsOf == dl_deleted.value[1]
ListedForDelete == dl_registry.later.value

\* A glob read as its tokens: "*", "?", a set with its characters, or one
\* character.
RECURSIVE GlobTokens(_)
GlobTokens(pat) ==
    IF pat = <<>> THEN <<>>
    ELSE IF Head(pat) = "*" THEN <<[kind |-> "any_run"]>> \o GlobTokens(Tail(pat))
    ELSE IF Head(pat) = "?" THEN <<[kind |-> "any_one"]>> \o GlobTokens(Tail(pat))
    ELSE IF Head(pat) = "[" /\ BracketSet(Tail(pat)).close # 0
    THEN <<[kind |-> "set", chars |-> BracketSet(Tail(pat)).chars,
            negated |-> BracketSet(Tail(pat)).negated]>>
            \o GlobTokens(SubSeq(pat, BracketSet(Tail(pat)).close + 2, Len(pat)))
    ELSE <<[kind |-> "one", char |-> Head(pat)]>> \o GlobTokens(Tail(pat))

\* How many characters of name the tokens can have consumed, starting from
\* any of the counts in from.
RECURSIVE Consumed(_, _, _)
Consumed(tokens, name, from) ==
    IF tokens = <<>> THEN from
    ELSE LET t == Head(tokens)
             then ==
                IF t.kind = "any_run"
                THEN {j \in 0..Len(name) : \E i \in from : i <= j}
                ELSE IF t.kind = "any_one"
                THEN {i + 1 : i \in {k \in from : k < Len(name)}}
                ELSE IF t.kind = "set"
                THEN {i + 1 : i \in {k \in from : k < Len(name)
                                        /\ (name[k + 1] \in t.chars) # t.negated}}
                ELSE {i + 1 : i \in {k \in from : k < Len(name)
                                        /\ name[k + 1] = t.char}}
         IN  Consumed(Tail(tokens), name, then)

\* The glob matches the whole tag.
GlobMatches(tag, glob) == Len(tag) \in Consumed(GlobTokens(glob), tag, {0})

\* The requests for manifests: those for a digest and the DELETEs.
ManifestRequests ==
    {i \in 1..Len(dl_requests) : dl_requests[i] # ListingRequest(dl_args.name)}

\* What the claim says of the selection apart from its second example.
SelectionInGeneral ==
    /\ dl_args.filterglob = <<"l", "*">> /\ ListedForDelete = ListedTags
          => SelectedTagsOf = <<TagLatest>>
    /\ SelectedTagsOf = SelectSeq(ListedForDelete,
                                  LAMBDA tag : GlobMatches(tag, dl_args.filterglob))
    /\ SelectedTagsOf = <<>> => ManifestRequests = {}

\* C18 as stated: of the tags a, b, atest, latest the glob l* selects latest
\* alone and the glob *test selects atest alone; the selected tags are the
\* listed tags the glob matches, in the order listed; a glob that matches
\* nothing makes no request for a manifest.
C18_GlobSelectsAtestAlone ==
    DeleteReturned =>
        /\ SelectionInGeneral
        /\ dl_args.filterglob = <<"*", "t", "e", "s", "t">> /\ ListedForDelete = ListedTags
              => SelectedTagsOf = <<TagAtest>>

\* C18 amended: as above, but the glob *test selects atest and latest, both
\* of which end in test.
C18_GlobSelectsMatchingTags ==
    DeleteReturned =>
        /\ SelectionInGeneral
        /\ dl_args.filterglob = <<"*", "t", "e", "s", "t">> /\ ListedForDelete = ListedTags
              => SelectedTagsOf = <<TagAtest, TagLatest>>

\* C18 witness: delete_image listed a, b, atest, latest for the glob *test,
\* selected atest and latest, and asked for the manifest of each.
C18_Witness ==
    /\ DeleteReturned
    /\ ListedForDelete = ListedTags
    /\ dl_args.filterglob = <<"*", "t", "e", "s", "t">>
    /\ SelectedTagsOf = <<TagAtest, TagLatest>>
    /\ \E i \in ManifestRequests : dl_requests[i].path = ManifestUrl(dl_args.name, TagLatest)

\* C19 as stated: delete_image returns two lists, the tags it processed and
\* those it failed to remove; delete_tags then prints DONE or FAIL for every
\* selected tag, raises RegistryError exactly when a tag failed and force is
\* false, and returns normally with force; every selected tag's deletion
\* was attempted, whatever happened to the tags before it.
C19_TwoListsAndReport ==
    (dl_pc = "done" /\ DeleteReturned)
        => /\ Len(dl_deleted.value) = 2
           /\ Len(dl_printed) = Len(SelectedTagsOf)
           /\ \A i \in 1..Len(dl_printed) :
                 /\ dl_printed[i].tag = SelectedTagsOf[i]
                 /\ dl_printed[i].res =
                       IF SelectedTagsOf[i] \in Elements(dl_deleted.value[2])
                       THEN "FAIL" ELSE "DONE"
           /\ (dl_ret.kind = "raise" /\ dl_ret.exc = "RegistryError")
                 <=> (dl_deleted.value[2] # <<>> /\ ~dl_args.force)
           /\ dl_args.force => dl_ret = Return(None)
           /\ \A i \in 1..Len(SelectedTagsOf) :
                 \E r \in ManifestRequests :
                    dl_requests[r] = [method |-> "GET",
                                      path |-> ManifestUrl(dl_args.name, SelectedTagsOf[i])]

\* The tags the glob matched in the listing delete_tags made for the prompt.
MatchedForPrompt ==
    SelectSeq(dl_registry.tags.value, LAMBDA tag : GlobMatches(tag, dl_args.filterglob))

\* delete_image was called.
DeletionStarted == dl_deleted # NoOutcome

\* C20: without force, a glob that matches more than one listed tag makes
\* delete_tags show them and prompt, and delete_image is called only on the
\* answer y or Y, no manifest being requested otherwise; a glob that
\* matches at most one tag makes it call delete_image without a prompt; with
\* force there is no prompt, and the tags are listed once, by delete_image.
C20_PromptGuardsDeletion ==
    dl_pc # "idle" =>
        /\ dl_args.force
              => /\ dl_shown = NoOutcome
                 /\ dl_answer = NoOutcome
                 /\ DeletionStarted
                 /\ Cardinality({i \in 1..Len(dl_requests) :
                                   dl_requests[i] = ListingRequest(dl_args.name)}) = 1
        /\ (~dl_args.force /\ dl_registry.tags.kind = "return" /\ Len(MatchedForPrompt) > 1)
              => /\ dl_shown = Return(MatchedForPrompt)
                 /\ DeletionStarted <=> dl_answer \in {Return(<<"y">>), Return(<<"Y">>)}
                 /\ ~DeletionStarted => ManifestRequests = {}
                 /\ dl_pc = "done" <=> dl_answer # NoOutcome
        /\ (~dl_args.force /\ dl_registry.tags.kind = "return" /\ Len(MatchedForPrompt) <= 1)
              => /\ dl_shown = NoOutcome
                 /\ dl_answer = NoOutcome
                 /\ DeletionStarted

\* C20 witness: without force the glob matched atest and latest, the user
\* was shown both and answered Y, and a DELETE was sent.
C20_Witness ==
    /\ dl_pc = "done"
    /\ ~dl_args.force
    /\ dl_shown = Return(<<TagAtest, TagLatest>>)
    /\ dl_answer = Return(<<"Y">>)
    /\ \E i \in ManifestRequests : dl_requests[i].method = "DELETE"

\* The futures whose run_report has ended.
EndedTasks == {i \in Dispatched : mn_futures[i].state = "finished"}

IsPrefix(s, t) == Len(s) <= Len(t) /\ s = SubSeq(t, 1, Len(s))

\* The methods a task is to call when nothing fails: all four, or the first
\* three when images are kept.
FullOrder ==
    IF mn_report._prune_images THEN ReportCalls ELSE SubSeq(ReportCalls, 1, 3)

\* C21 as stated: in every task that ended, the reporter operations occurred
\* in the order support check, generate, submit, prune: the check came
\* first; generate was not called when the check answered False; submit was
\* called only after generate returned without error; prune was called only
\* after submit and only when images are not kept; and the reference is in
\* the success list only after all of them returned.
C21_OperationsInOrder ==
    \A i \in EndedTasks :
        LET calls == mn_futures[i].calls
            reporter == mn_futures[i].reporter
        IN  /\ calls # <<>> /\ calls[1] = "is_debian_image"
            /\ IsPrefix(calls, FullOrder)
            /\ reporter = "unsupported" => calls = <<"is_debian_image">>
            /\ reporter = "report_error" => calls = SubSeq(ReportCalls, 1, 2)
            /\ mn_futures[i].image \in Elements(mn_report._success)
                  => calls = FullOrder

\* The task of the first reference has ended by raising an exception that
\* is not the report error, in a pool of one worker with two or more
\* references queued.
FirstTaskRaised ==
    /\ Len(mn_futures) >= 2
    /\ mn_options.concurrency = 1
    /\ mn_futures[1].state = "finished"
    /\ mn_futures[1].out.kind = "raise"
    /\ mn_futures[1].out.exc # "DockerReportError"

\* The futures whose run_report was ever called.
Invoked == {i \in Dispatched : mn_futures[i].state \in {"running", "finished"}}

\* C22 as stated: with pool width 1 and two or more references queued, once
\* the task of the first reference has raised an exception other than the
\* report error, no later task is ever started (exactly one invocation), and
\* the run ends with exit status 1 without a summary.
C22_OnlyFirstTaskRuns ==
    FirstTaskRaised =>
        /\ Invoked = {1}
        /\ Exited => (mn_status = 1 /\ mn_printed = NoOutcome)

(***************************************************************************)
(* Claims about the mapping get_image_tags returns.                        *)
(***************************************************************************)
\* The tags listed for an image that every tag filter accepts, in the order
\* the server listed them.
AcceptedTags(image) ==
    SelectSeq(br_registry.tags[image].value,
              LAMBDA tag : EveryTagFilterAccepts(image, tag))

\* The images of the catalog that pass every name filter and have a tag that
\* passes every tag filter.
ImagesWithTags ==
    {image \in CatalogImages :
        EveryNameFilterAccepts(image) /\ AcceptedTags(image) # <<>>}

\* t holds the elements of s, each as often as s does.
IsPermutation(s, t) ==
    /\ Len(s) = Len(t)
    /\ \A x \in Elements(s) \cup Elements(t) :
          Cardinality({i \in 1..Len(s) : s[i] = x})
             = Cardinality({i \in 1..Len(t) : t[i] = x})

\* C23: the keys of the mapping get_image_tags returns are exactly the images
\* that pass every name filter and have at least one tag passing every tag
\* filter; each value is the image's accepted tags in server order, or in
\* the order of sort_tags when sort is asked for; no value is empty, so the
\* last tag of every entry is defined.
C23_MappingOfAcceptedTags ==
    (br_pc = "done" /\ br_out.kind = "return") =>
        LET image_data == br_out.value
        IN  /\ Elements(image_data.keys) = ImagesWithTags
            /\ DOMAIN image_data.val = ImagesWithTags
            /\ \A i, j \in 1..Len(image_data.keys) :
                  image_data.keys[i] = image_data.keys[j] => i = j
            /\ \A image \in ImagesWithTags :
                  LET tags == image_data.val[image]
                  IN  /\ tags # <<>>
                      /\ LastOf(tags).kind = "return"
                      /\ IsPermutation(tags, AcceptedTags(image))
                      /\ tags = IF br_sort
                                THEN sort_tags(image, AcceptedTags(image),
                                               br_registry.fetch).value
                                ELSE AcceptedTags(image)

\* C23 witness: a sorting call returned a mapping in which the tags of one
\* image are not in server order and those of another are fewer than the
\* server listed, while an image the name filters accept is not a key
\* because no tag of it was accepted.
C23_Witness ==
    /\ br_pc = "done"
    /\ br_out.kind = "return"
    /\ br_sort
    /\ \E image \in ImagesWithTags :
          /\ Len(br_out.value.val[image]) >= 2
          /\ br_out.value.val[image] # AcceptedTags(image)
    /\ \E image \in ImagesWithTags :
          Len(br_out.value.val[image]) < Len(br_registry.tags[image].value)
    /\ \E image \in CatalogImages :
          /\ EveryNameFilterAccepts(image)
          /\ AcceptedTags(image) = <<>>
          /\ image \notin DOMAIN br_out.value.val

\* C24 as stated: the external reporter can be built from an image reference
\* and a scratch directory alone, and the support check run_report calls is
\* a method it has; so a task for a supported image whose generate, submit
\* and prune succeed returns normally with its reference in the success
\* list, and a run of such tasks alone exits with status 0.
C24_ReporterContractHolds ==
    /\ \A i \in Dispatched :
          /\ DockerReport(<<mn_futures[i].image, mn_report._tempdir>>).kind = "return"
          /\ GetAttr("is_debian_image").kind = "return"
    /\ \A i \in EndedTasks :
          mn_futures[i].reporter = "succeeds"
             => /\ mn_futures[i].out = Return(None)
                /\ mn_futures[i].image \in Elements(mn_report._success)
                /\ mn_report.exitcode = 0
    /\ (/\ Exited
        /\ Dispatched # {}
        /\ \A i \in Dispatched : mn_futures[i].reporter = "succeeds")
          => mn_status = 0

(***************************************************************************)
(* Claims about the filter lists of the browsers of one process.           *)
(***************************************************************************)
\* The filters derived from the arguments of the k-th call alone: what the
\* call leaves in two lists that were empty.
OwnFilters(k) ==
    IF "filterglob" \in DOMAIN browsers[k]
    THEN list_images(browsers[k].filterglob, <<>>, <<>>, br_registry)
    ELSE setup_browser(browsers[k], <<>>, <<>>)

\* C25 as stated: after any sequence of calls of setup_browser and
\* list_images, the name and tag filter lists of every browser hold the
\* filters derived from its own call, and no filter of another call.
C25_FiltersOwnedPerBrowser ==
    \A k \in 1..Len(browsers) :
        /\ cls_name_filters = OwnFilters(k).name_filters
        /\ cls_tag_filters = OwnFilters(k).tag_filters

\* The tags whose manifest delete_image deleted: those it selected, less
\* those it reports as failed or as not found.
DeletedTags ==
    Elements(dl_deleted.value[1])
       \ (Elements(dl_deleted.value[2]) \cup Elements(dl_deleted.value[3]))

\* C26 as stated: in delete_tags without force, every tag deleted after the
\* user confirmed was in the list printed before the prompt, whatever the
\* registry lists when delete_image asks again.
C26_DeletedWereShown ==
    (/\ dl_answer # NoOutcome
     /\ DeleteReturned)
        => DeletedTags \subseteq Elements(dl_shown.value)

(***************************************************************************)
(* Claims about the report files of the DockerReport objects.              *)
(***************************************************************************)
\* C27 as stated: the report file name derived from an image reference
\* (every "/" replaced by "-") is distinct for distinct references, so no
\* two reports for different images are written to the same file of the
\* shared directory.
C27_DistinctReportFiles ==
    \A i, j \in 1..Len(dr_reports) :
        dr_reports[i].image # dr_reports[j].image
           => /\ dr_reports[i].file_basename # dr_reports[j].file_basename
              /\ dr_reports[i].filename # dr_reports[j].filename

\* main ended without ever binding report: _tempdir() or setup_browser()
\* raised.
SetupFailed == Exited /\ "report" \notin mn_bound

\* C28 as stated: when scratch-directory creation or browser setup raises,
\* main still exits with status 1, neither the exception handler nor the
\* cleanup step raises, and no scratch directory that was created is left
\* behind.
C28_SetupFailureHandled ==
    SetupFailed
       => /\ mn_status = 1
          /\ mn_exc.kind # "raise"
          /\ mn_dir # "exists"

\* C29 as stated: the line "All images submitted correctly!" is printed only
\* in runs whose exit status is 0, and never by a run whose discovery failed
\* with RegistryError.
C29_AllCorrectOnlyOnSuccess ==
    (Exited /\ mn_printed # NoOutcome /\ mn_printed.all_correct)
       => /\ mn_status = 0
          /\ ~(mn_found.kind = "raise" /\ mn_found.exc = "RegistryError")

(***************************************************************************)
(* Claims about the images and containers a report task leaves.            *)
(***************************************************************************)
\* The task has ended, by a return or by an exception.
TaskOver == tk_pc = "done"

====
